---- MODULE Spec2Model ----
(***************************************************************************)
(* A model of the context-mixing bit predictor of TComContextMixer.cpp:    *)
(* the logistic tables (squash, Stretch), the bit-history state table, the *)
(* Mixer's weight training, the bucketed hash table BH, and the Predictor  *)
(* with its global bit/byte context.                                       *)
(*                                                                         *)
(* Integers of the source are C ints (32-bit two's complement).  x >> n on *)
(* a signed value is an arithmetic shift, i.e. floor division by 2^n, and  *)
(* x & (2^n - 1) is x modulo 2^n (non-negative), which is what \div and %  *)
(* compute in TLA+.                                                        *)
(***************************************************************************)
EXTENDS Integers, Sequences, FiniteSets, TLC

VARIABLES
  probe,     \* the pure-function harness: input, intermediate and result
  hist,      \* one bit-history byte of a ContextMap (what cp[i] points to)
  y,         \* the last bit, set by the coder before update()
  m,         \* a Mixer (with its child Mixer, if any)
  caller,    \* where the Mixer's caller is in the per-bit protocol, and the round
  bh,        \* a BH<4> table: bucket base index -> its 8 elements
  bhuse,     \* the BH's user: the pointer it holds, and the record of its calls
  ctx,       \* the global context: c0, c4, bpos, pos, buf
  stat,      \* the static objects of contextModel2 and Predictor::update, and rnd
  pred,      \* the Predictor in use
  coder,     \* the coder that sets y and calls update(), and what it has seen
  sm1,       \* one StateMap with its caller: the context and bit it is driven with
  apm1,      \* one APM with its caller: the (pr, cx, rate) and bit it is driven with
  elem,      \* one ContextMap::E bucket, and the record of the last get()
  run        \* the run model of one byte-boundary row, and the bytes it was given

vars == <<probe, hist, y, m, caller, bh, bhuse, ctx, stat, pred, coder, sm1, apm1,
          elem, run>>

---------------------------------------------------------------------------
(* Shifts as the C code uses them on int values.                           *)
Shr(a, n) == a \div (2 ^ n)

\* the value an int has after being stored in a short
ToShort(x) == ((x + 32768) % 65536) - 32768

\* (n + 7) & -8
RoundUp8(n) == ((n + 7) \div 8) * 8
Abs(a) == IF a < 0 THEN -a ELSE a

---------------------------------------------------------------------------
(* Unsigned 32-bit values (U32) are pairs <<hi, lo>> of 16-bit halves.     *)

\* (U32)(r << k) != 0 for 0 <= k < 32: some of the low 32-k bits of r are set
ShlNonZero(r, k) ==
  IF k >= 16 THEN r[2] % (2 ^ (32 - k)) # 0
  ELSE r[2] # 0 \/ r[1] % (2 ^ (16 - k)) # 0

\* TRUE.  It makes TLC compute x at this point: TLC computes the argument of
\* an operator and the definition of a LET only where the value is first
\* used, which nests the evaluations of a long chain of calls as deep as the
\* chain is long.
Now(x) == x = x

\* F(v), with v computed first and once: a local variable of the C code
\* that is set once and read several times
With(v, F(_)) == CASE Now(v) -> F(v)

\* a ^ b on values of n bits, n a power of 2: the two halves are done apart
RECURSIVE XorBits(_, _, _)
XorBits(a, b, n) ==
  IF n = 1 THEN (a + b) % 2
  ELSE LET h == 2 ^ (n \div 2)
       IN  XorBits(a \div h, b \div h, n \div 2) * h
           + XorBits(a % h, b % h, n \div 2)

\* a ^ b on values of 16 bits
BitXor(a, b) == IF Now(a) /\ Now(b) THEN XorBits(a, b, 16) ELSE 0

\* the U32 of a non-negative int
ToU32(n) == <<n \div 65536, n % 65536>>

\* the low 16 bits of a * b, for a and b below 2^16, without a product of
\* more than 24 bits
MulLo16(a, b) == ((a % 256) * b + (((a \div 256) * b) % 256) * 256) % 65536

\* bits 16..31 of a * b, for a and b below 2^16
MulHi16(a, b) ==
  ((a % 256) * b + (((a \div 256) * b) % 256) * 256) \div 65536
  + ((a \div 256) * b) \div 256

U32Add(a, b) ==
  <<(a[1] + b[1] + (a[2] + b[2]) \div 65536) % 65536, (a[2] + b[2]) % 65536>>

U32Mul(a, b) ==
  <<(MulHi16(a[2], b[2]) + MulLo16(a[1], b[2]) + MulLo16(a[2], b[1])) % 65536,
    MulLo16(a[2], b[2])>>

U32Xor(a, b) == <<BitXor(a[1], b[1]), BitXor(a[2], b[2])>>

\* a >> k, 0 <= k < 32
U32Shr(a, k) ==
  IF k >= 16 THEN <<0, a[1] \div (2 ^ (k - 16))>>
  ELSE <<a[1] \div (2 ^ k), a[2] \div (2 ^ k) + (a[1] % (2 ^ k)) * (2 ^ (16 - k))>>

\* a << 8
U32Shl8(a) == <<(a[1] * 256 + a[2] \div 256) % 65536, (a[2] * 256) % 65536>>

\* the int that has the bits of a (two's complement)
U32ToInt(a) ==
  IF a[1] >= 32768 THEN (a[1] - 65536) * 65536 + a[2] ELSE a[1] * 65536 + a[2]

---------------------------------------------------------------------------
(* Random: a table of 64 U32 and the index i.                              *)

\* Random::Random(), one iteration of the loop: t is table[0..j+1]
RandomIter(t, j) ==
  Append(t, U32Add(U32Mul(t[j + 2], ToU32(11)),
                   U32Shr(U32Mul(t[j + 1], ToU32(23)), 4)))

\* for (j = lo; j <= hi; j++) { ... }, the range being halved so that the
\* evaluation does not nest deep
RECURSIVE RandomSweep(_, _, _)
RandomSweep(t, lo, hi) ==
  IF lo = hi THEN RandomIter(t, lo)
  ELSE LET mid == (lo + hi) \div 2
           left == RandomSweep(t, lo, mid)
       IN  IF Now(left) THEN RandomSweep(left, mid + 1, hi) ELSE left

RandomTable == RandomSweep(<<ToU32(123456789), ToU32(987654321)>>, 0, 61)

RandomInit == [table |-> RandomTable, i |-> 0]

\* Random::operator()(): the generator after the call; the value returned is
\* RandomLast
RandomNext(r) ==
  [table |-> [r.table EXCEPT ![((r.i + 1) % 64) + 1] =
                 U32Xor(r.table[((r.i + 1 - 24) % 64) + 1],
                        r.table[((r.i + 1 - 55) % 64) + 1])],
   i |-> r.i + 1]

RandomLast(r) == r.table[(r.i % 64) + 1]

---------------------------------------------------------------------------
(* Ilog: t[x] for x in 0..256, the arguments the models pass (a count byte *)
(* plus one).  x in the constructor is a U32.                              *)

\* Ilog::Ilog(), one iteration of the loop: st is the table and x so far
IlogIter(st, i) ==
  LET x == U32Add(st.x, ToU32(774541002 \div (i * 2 - 1)))
  IN  [t |-> Append(st.t, x[1] \div 256), x |-> x]

\* for (i = lo; i <= hi; ++i) { ... }, the range being halved so that the
\* evaluation does not nest deep
RECURSIVE IlogSweep(_, _, _)
IlogSweep(st, lo, hi) ==
  IF lo = hi THEN IlogIter(st, lo)
  ELSE LET mid == (lo + hi) \div 2
           left == IlogSweep(st, lo, mid)
       IN  IF Now(left) THEN IlogSweep(left, mid + 1, hi) ELSE left

IlogTable == IlogSweep([t |-> <<0, 0>>, x |-> ToU32(14155776)], 2, 256).t

\* Ilog::operator()(U16 x)
ilog(x) == IlogTable[x + 1]

---------------------------------------------------------------------------
(* The bit-history state table.  The initializer gives rows 0..252; the    *)
(* remaining rows of the [256][4] array are zero.                          *)
State_table ==
  <<
    <<1, 2, 0, 0>>, <<3, 5, 1, 0>>, <<4, 6, 0, 1>>, <<7, 10, 2, 0>>,   \* 0-3
    <<8, 12, 1, 1>>, <<9, 13, 1, 1>>, <<11, 14, 0, 2>>, <<15, 19, 3, 0>>,   \* 4-7
    <<16, 23, 2, 1>>, <<17, 24, 2, 1>>, <<18, 25, 2, 1>>, <<20, 27, 1, 2>>,   \* 8-11
    <<21, 28, 1, 2>>, <<22, 29, 1, 2>>, <<26, 30, 0, 3>>, <<31, 33, 4, 0>>,   \* 12-15
    <<32, 35, 3, 1>>, <<32, 35, 3, 1>>, <<32, 35, 3, 1>>, <<32, 35, 3, 1>>,   \* 16-19
    <<34, 37, 2, 2>>, <<34, 37, 2, 2>>, <<34, 37, 2, 2>>, <<34, 37, 2, 2>>,   \* 20-23
    <<34, 37, 2, 2>>, <<34, 37, 2, 2>>, <<36, 39, 1, 3>>, <<36, 39, 1, 3>>,   \* 24-27
    <<36, 39, 1, 3>>, <<36, 39, 1, 3>>, <<38, 40, 0, 4>>, <<41, 43, 5, 0>>,   \* 28-31
    <<42, 45, 4, 1>>, <<42, 45, 4, 1>>, <<44, 47, 3, 2>>, <<44, 47, 3, 2>>,   \* 32-35
    <<46, 49, 2, 3>>, <<46, 49, 2, 3>>, <<48, 51, 1, 4>>, <<48, 51, 1, 4>>,   \* 36-39
    <<50, 52, 0, 5>>, <<53, 43, 6, 0>>, <<54, 57, 5, 1>>, <<54, 57, 5, 1>>,   \* 40-43
    <<56, 59, 4, 2>>, <<56, 59, 4, 2>>, <<58, 61, 3, 3>>, <<58, 61, 3, 3>>,   \* 44-47
    <<60, 63, 2, 4>>, <<60, 63, 2, 4>>, <<62, 65, 1, 5>>, <<62, 65, 1, 5>>,   \* 48-51
    <<50, 66, 0, 6>>, <<67, 55, 7, 0>>, <<68, 57, 6, 1>>, <<68, 57, 6, 1>>,   \* 52-55
    <<70, 73, 5, 2>>, <<70, 73, 5, 2>>, <<72, 75, 4, 3>>, <<72, 75, 4, 3>>,   \* 56-59
    <<74, 77, 3, 4>>, <<74, 77, 3, 4>>, <<76, 79, 2, 5>>, <<76, 79, 2, 5>>,   \* 60-63
    <<62, 81, 1, 6>>, <<62, 81, 1, 6>>, <<64, 82, 0, 7>>, <<83, 69, 8, 0>>,   \* 64-67
    <<84, 71, 7, 1>>, <<84, 71, 7, 1>>, <<86, 73, 6, 2>>, <<86, 73, 6, 2>>,   \* 68-71
    <<44, 59, 5, 3>>, <<44, 59, 5, 3>>, <<58, 61, 4, 4>>, <<58, 61, 4, 4>>,   \* 72-75
    <<60, 49, 3, 5>>, <<60, 49, 3, 5>>, <<76, 89, 2, 6>>, <<76, 89, 2, 6>>,   \* 76-79
    <<78, 91, 1, 7>>, <<78, 91, 1, 7>>, <<80, 92, 0, 8>>, <<93, 69, 9, 0>>,   \* 80-83
    <<94, 87, 8, 1>>, <<94, 87, 8, 1>>, <<96, 45, 7, 2>>, <<96, 45, 7, 2>>,   \* 84-87
    <<48, 99, 2, 7>>, <<48, 99, 2, 7>>, <<88, 101, 1, 8>>, <<88, 101, 1, 8>>,   \* 88-91
    <<80, 102, 0, 9>>, <<103, 69, 10, 0>>, <<104, 87, 9, 1>>, <<104, 87, 9, 1>>,   \* 92-95
    <<106, 57, 8, 2>>, <<106, 57, 8, 2>>, <<62, 109, 2, 8>>, <<62, 109, 2, 8>>,   \* 96-99
    <<88, 111, 1, 9>>, <<88, 111, 1, 9>>, <<80, 112, 0, 10>>, <<113, 85, 11, 0>>,   \* 100-103
    <<114, 87, 10, 1>>, <<114, 87, 10, 1>>, <<116, 57, 9, 2>>, <<116, 57, 9, 2>>,   \* 104-107
    <<62, 119, 2, 9>>, <<62, 119, 2, 9>>, <<88, 121, 1, 10>>, <<88, 121, 1, 10>>,   \* 108-111
    <<90, 122, 0, 11>>, <<123, 85, 12, 0>>, <<124, 97, 11, 1>>, <<124, 97, 11, 1>>,   \* 112-115
    <<126, 57, 10, 2>>, <<126, 57, 10, 2>>, <<62, 129, 2, 10>>, <<62, 129, 2, 10>>,   \* 116-119
    <<98, 131, 1, 11>>, <<98, 131, 1, 11>>, <<90, 132, 0, 12>>, <<133, 85, 13, 0>>,   \* 120-123
    <<134, 97, 12, 1>>, <<134, 97, 12, 1>>, <<136, 57, 11, 2>>, <<136, 57, 11, 2>>,   \* 124-127
    <<62, 139, 2, 11>>, <<62, 139, 2, 11>>, <<98, 141, 1, 12>>, <<98, 141, 1, 12>>,   \* 128-131
    <<90, 142, 0, 13>>, <<143, 95, 14, 0>>, <<144, 97, 13, 1>>, <<144, 97, 13, 1>>,   \* 132-135
    <<68, 57, 12, 2>>, <<68, 57, 12, 2>>, <<62, 81, 2, 12>>, <<62, 81, 2, 12>>,   \* 136-139
    <<98, 147, 1, 13>>, <<98, 147, 1, 13>>, <<100, 148, 0, 14>>, <<149, 95, 15, 0>>,   \* 140-143
    <<150, 107, 14, 1>>, <<150, 107, 14, 1>>, <<108, 151, 1, 14>>, <<108, 151, 1, 14>>,   \* 144-147
    <<100, 152, 0, 15>>, <<153, 95, 16, 0>>, <<154, 107, 15, 1>>, <<108, 155, 1, 15>>,   \* 148-151
    <<100, 156, 0, 16>>, <<157, 95, 17, 0>>, <<158, 107, 16, 1>>, <<108, 159, 1, 16>>,   \* 152-155
    <<100, 160, 0, 17>>, <<161, 105, 18, 0>>, <<162, 107, 17, 1>>, <<108, 163, 1, 17>>,   \* 156-159
    <<110, 164, 0, 18>>, <<165, 105, 19, 0>>, <<166, 117, 18, 1>>, <<118, 167, 1, 18>>,   \* 160-163
    <<110, 168, 0, 19>>, <<169, 105, 20, 0>>, <<170, 117, 19, 1>>, <<118, 171, 1, 19>>,   \* 164-167
    <<110, 172, 0, 20>>, <<173, 105, 21, 0>>, <<174, 117, 20, 1>>, <<118, 175, 1, 20>>,   \* 168-171
    <<110, 176, 0, 21>>, <<177, 105, 22, 0>>, <<178, 117, 21, 1>>, <<118, 179, 1, 21>>,   \* 172-175
    <<110, 180, 0, 22>>, <<181, 115, 23, 0>>, <<182, 117, 22, 1>>, <<118, 183, 1, 22>>,   \* 176-179
    <<120, 184, 0, 23>>, <<185, 115, 24, 0>>, <<186, 127, 23, 1>>, <<128, 187, 1, 23>>,   \* 180-183
    <<120, 188, 0, 24>>, <<189, 115, 25, 0>>, <<190, 127, 24, 1>>, <<128, 191, 1, 24>>,   \* 184-187
    <<120, 192, 0, 25>>, <<193, 115, 26, 0>>, <<194, 127, 25, 1>>, <<128, 195, 1, 25>>,   \* 188-191
    <<120, 196, 0, 26>>, <<197, 115, 27, 0>>, <<198, 127, 26, 1>>, <<128, 199, 1, 26>>,   \* 192-195
    <<120, 200, 0, 27>>, <<201, 115, 28, 0>>, <<202, 127, 27, 1>>, <<128, 203, 1, 27>>,   \* 196-199
    <<120, 204, 0, 28>>, <<205, 115, 29, 0>>, <<206, 127, 28, 1>>, <<128, 207, 1, 28>>,   \* 200-203
    <<120, 208, 0, 29>>, <<209, 125, 30, 0>>, <<210, 127, 29, 1>>, <<128, 211, 1, 29>>,   \* 204-207
    <<130, 212, 0, 30>>, <<213, 125, 31, 0>>, <<214, 137, 30, 1>>, <<138, 215, 1, 30>>,   \* 208-211
    <<130, 216, 0, 31>>, <<217, 125, 32, 0>>, <<218, 137, 31, 1>>, <<138, 219, 1, 31>>,   \* 212-215
    <<130, 220, 0, 32>>, <<221, 125, 33, 0>>, <<222, 137, 32, 1>>, <<138, 223, 1, 32>>,   \* 216-219
    <<130, 224, 0, 33>>, <<225, 125, 34, 0>>, <<226, 137, 33, 1>>, <<138, 227, 1, 33>>,   \* 220-223
    <<130, 228, 0, 34>>, <<229, 125, 35, 0>>, <<230, 137, 34, 1>>, <<138, 231, 1, 34>>,   \* 224-227
    <<130, 232, 0, 35>>, <<233, 125, 36, 0>>, <<234, 137, 35, 1>>, <<138, 235, 1, 35>>,   \* 228-231
    <<130, 236, 0, 36>>, <<237, 125, 37, 0>>, <<238, 137, 36, 1>>, <<138, 239, 1, 36>>,   \* 232-235
    <<130, 240, 0, 37>>, <<241, 125, 38, 0>>, <<242, 137, 37, 1>>, <<138, 243, 1, 37>>,   \* 236-239
    <<130, 244, 0, 38>>, <<245, 135, 39, 0>>, <<246, 137, 38, 1>>, <<138, 247, 1, 38>>,   \* 240-243
    <<140, 248, 0, 39>>, <<249, 135, 40, 0>>, <<250, 69, 39, 1>>, <<80, 251, 1, 39>>,   \* 244-247
    <<140, 252, 0, 40>>, <<249, 135, 41, 0>>, <<250, 69, 40, 1>>, <<80, 251, 1, 40>>,   \* 248-251
    <<140, 252, 0, 41>>, <<0, 0, 0, 0>>, <<0, 0, 0, 0>>, <<0, 0, 0, 0>>   \* 252-255
  >>

nex(state, sel) == State_table[state + 1][sel + 1]

\* a training step that steps forward by 4 where the code steps back
TrainState_Forward(s0, y1, r) ==
  LET ns == nex(s0, y1)
  IN  IF ns >= 204 /\ ShlNonZero(r, Shr(452 - ns, 3)) THEN ns + 4 ELSE ns

\* a training step that steps back only when the shifted value is zero
TrainState_Rare(s0, y1, r) ==
  LET ns == nex(s0, y1)
  IN  IF ns >= 204 /\ ~ShlNonZero(r, Shr(452 - ns, 3)) THEN ns - 4 ELSE ns

\* ContextMap::mix1: the new value of the bit history s0 that cp[i] points to,
\* r being the value rnd() returns when it is called
TrainState(s0, y1, r) ==
  LET ns == nex(s0, y1)
  IN  IF ns >= 204 /\ ShlNonZero(r, Shr(452 - ns, 3)) THEN ns - 4 ELSE ns

---------------------------------------------------------------------------
(* squash: the 33-entry anchor table and the interpolation.               *)
SquashT ==
  <<1, 2, 3, 6, 10, 16, 27, 45, 73, 120, 194, 310, 488, 747, 1101,
    1546, 2047, 2549, 2994, 3348, 3607, 3785, 3901, 3975, 4022,
    4050, 4068, 4079, 4085, 4089, 4092, 4093, 4094>>

\* t[k] of squash(), the C array being 0-based
SquashAt(k) == SquashT[k + 1]

\* a squash that returns 4096 above the domain
squash_TopOpen(d) ==
  IF d > 2047 THEN 4096
  ELSE IF d < -2047 THEN 0
  ELSE LET w == d % 128
           i == Shr(d, 7) + 16
       IN  Shr(SquashAt(i) * (128 - w) + SquashAt(i + 1) * w + 64, 7)

squash(d) ==
  IF d > 2047 THEN 4095
  ELSE IF d < -2047 THEN 0
  ELSE LET w == d % 128
           i == Shr(d, 7) + 16
       IN  Shr(SquashAt(i) * (128 - w) + SquashAt(i + 1) * w + 64, 7)

---------------------------------------------------------------------------
(* Stretch::Stretch(): the table t[0..4095] filled by sweeping x over      *)
(* -2047..2047.  The sweep state is [pi, t].                               *)

\* for (j = pi; j <= i; ++j) t[j] = x;
RECURSIVE StretchFill(_, _, _, _)
StretchFill(t, j, i, x) ==
  IF j > i THEN t ELSE StretchFill([t EXCEPT ![j] = x], j + 1, i, x)

\* a sweep that forgets to step past the entry it has just filled
StretchIter_NoAdvance(st, x) ==
  LET i == squash(x)
  IN  [pi |-> i, t |-> StretchFill(st.t, st.pi, i, x)]

\* one iteration of the for (x ...) loop
StretchIter(st, x) ==
  LET i == squash(x)
  IN  [pi |-> i + 1, t |-> StretchFill(st.t, st.pi, i, x)]

\* for (x = lo; x <= hi; ++x) { ... }: the iterations in increasing order of x,
\* the range being halved so that the evaluation does not nest 4095 deep
RECURSIVE StretchSweep(_, _, _)
StretchSweep(st, lo, hi) ==
  IF lo = hi THEN StretchIter(st, lo)
  ELSE LET mid == (lo + hi) \div 2
           left == StretchSweep(st, lo, mid)
       IN  IF Now(left) THEN StretchSweep(left, mid + 1, hi) ELSE left

\* a constructor that leaves out the final t[4095] = 2047
StretchTable_NoTop ==
  StretchSweep([pi |-> 0, t |-> [j \in 0..4095 |-> 0]], -2047, 2047).t

StretchTable ==
  LET swept == StretchSweep([pi |-> 0, t |-> [j \in 0..4095 |-> 0]], -2047, 2047)
  IN  [swept.t EXCEPT ![4095] = 2047]

\* Stretch::operator()(int p)
stretch(p) == StretchTable[p]

\* the constructor run on a table of 32768, which is no short: an entry
\* that still holds it was not assigned
StretchAssigned ==
  LET swept == StretchSweep([pi |-> 0, t |-> [j \in 0..4095 |-> 32768]], -2047, 2047)
  IN  [swept.t EXCEPT ![4095] = 2047]


---------------------------------------------------------------------------
(* Mixer.  A Mixer is a record; its arrays are kept as far as they have    *)
(* been written: tx is the sequence of the inputs written so far (further  *)
(* entries are the allocator's 0), wx maps the index of a weight set that  *)
(* has been trained to the sequence of its trained weights (every other    *)
(* weight still has the constructor's value w0), cxt holds the ncxt        *)
(* selected sets.  mp is <<the child Mixer>> or <<>>.  calls is the record *)
(* of the calls of its methods since the last update(), that call first:   *)
(* <<"update">>, <<"add">>, <<"set", cx, range>> or <<"p">>.                *)

\* Mixer::Mixer(n, m, s, w), without the child
MixerFields(n, mm, s, w) ==
  [N |-> RoundUp8(n), M |-> mm, S |-> s, w0 |-> ToShort(w),
   tx |-> <<>>, wx |-> <<>>, cxt |-> <<>>, base |-> 0, nx |-> 0,
   pr |-> [i \in 1..s |-> 2048], calls |-> <<>>]

\* Mixer::Mixer(n, m, s, w): if (S > 1) mp = new Mixer(S, 1, 1, 0x7fff)
MixerNew(n, mm, s, w) ==
  [mix |-> MixerFields(n, mm, s, w),
   mp |-> IF s > 1 THEN <<MixerFields(s, 1, 1, 32767)>> ELSE <<>>]

\* tx[k] and wx[row * N + k]
TxAt(mx, k) == IF k < Len(mx.tx) THEN mx.tx[k + 1] ELSE 0
WxAt(mx, row, k) ==
  IF row \in DOMAIN mx.wx /\ k < Len(mx.wx[row]) THEN mx.wx[row][k + 1] ELSE mx.w0

\* a train() that saturates at the top only
TrainWeight_NoFloor(w, t, err) ==
  LET wt == w + Shr(Shr(t * err * 2, 16) + 1, 1)
  IN  IF wt > 32767 THEN 32767 ELSE wt

\* train(): the new value of one weight
TrainWeight(w, t, err) ==
  LET wt == w + Shr(Shr(t * err * 2, 16) + 1, 1)
  IN  IF wt < -32768 THEN -32768
      ELSE IF wt > 32767 THEN 32767
      ELSE wt

\* train(&tx[0], &wx[row * N], n, err): the weight set after training
train(mx, row, n, err) ==
  LET had == IF row \in DOMAIN mx.wx THEN Len(mx.wx[row]) ELSE 0
      len == IF RoundUp8(n) > had THEN RoundUp8(n) ELSE had
  IN  [k \in 1..len |->
         IF k <= RoundUp8(n)
           THEN TrainWeight(WxAt(mx, row, k - 1), TxAt(mx, k - 1), err)
           ELSE WxAt(mx, row, k - 1)]

\* dot_product(&tx[0], &wx[row * N], n), the sum over the pairs lo..hi-1: pair
\* k is tx[2k], tx[2k+1].  The range is halved so that the evaluation does
\* not nest deep.
RECURSIVE DotFrom(_, _, _, _)
DotFrom(mx, row, lo, hi) ==
  IF lo >= hi THEN 0
  ELSE IF lo + 1 = hi
    THEN Shr(TxAt(mx, 2 * lo) * WxAt(mx, row, 2 * lo)
             + TxAt(mx, 2 * lo + 1) * WxAt(mx, row, 2 * lo + 1), 8)
  ELSE DotFrom(mx, row, lo, (lo + hi) \div 2)
       + DotFrom(mx, row, (lo + hi) \div 2, hi)

dot_product(mx, row, n) == DotFrom(mx, row, 0, RoundUp8(n) \div 2)

\* Mixer::update(), the loop from context i on
RECURSIVE UpdateFrom(_, _, _)
UpdateFrom(mx, i, bit) ==
  IF i > Len(mx.cxt) THEN mx
  ELSE LET err == (bit * 4096 - mx.pr[i]) * 7
           row == mx.cxt[i]
       IN  UpdateFrom([mx EXCEPT !.wx = (row :> train(mx, row, mx.nx, err)) @@ @],
                      i + 1, bit)

\* Mixer::update()
MixerUpdate(mx, bit) ==
  [UpdateFrom(mx, 1, bit) EXCEPT !.nx = 0, !.base = 0, !.cxt = <<>>,
                                 !.calls = <<<<"update">>>>]

\* tx[nx++] = x
MixerPut(mx, x) ==
  [mx EXCEPT !.tx = IF mx.nx < Len(@) THEN [@ EXCEPT ![mx.nx + 1] = ToShort(x)]
                    ELSE Append(@, ToShort(x)),
             !.nx = @ + 1]

\* Mixer::add(x)
MixerAdd(mx, x) == [MixerPut(mx, x) EXCEPT !.calls = Append(@, <<"add">>)]

\* Mixer::set(cx, range)
MixerSet(mx, cx, range) ==
  [mx EXCEPT !.cxt = Append(@, mx.base + cx), !.base = @ + range,
             !.calls = Append(@, <<"set", cx, range>>)]

\* Mixer::p(): while (nx & 7) tx[nx++] = 0
RECURSIVE MixerPad(_)
MixerPad(mx) == IF mx.nx % 8 = 0 THEN mx ELSE MixerPad(MixerPut(mx, 0))

\* Mixer::p() of a Mixer without child: pr[0] = squash(dot_product(tx, wx, nx) >> 8)
MixerP1(mx) ==
  LET pd == [MixerPad(mx) EXCEPT !.calls = Append(@, <<"p">>)]
  IN  [pd EXCEPT !.pr[1] = squash(Shr(dot_product(pd, 0, pd.nx), 8))]

\* Mixer::p() with a child, the loop over the selected sets from i on:
\* pr[i] = squash(dot_product(...) >> 5); mp->add(stretch(pr[i]))
RECURSIVE MixerFeed(_, _)
MixerFeed(mm, i) ==
  IF i > Len(mm.mix.cxt) THEN mm
  ELSE LET pri == squash(Shr(dot_product(mm.mix, mm.mix.cxt[i], mm.mix.nx), 5))
       IN  MixerFeed([mix |-> [mm.mix EXCEPT !.pr[i] = pri],
                      mp |-> <<MixerAdd(mm.mp[1], stretch(pri))>>], i + 1)

\* Mixer::p(): the Mixer (and child) after the call; the value returned is MixerPr
MixerP(mm, bit) ==
  IF mm.mp = <<>> THEN [mm EXCEPT !.mix = MixerP1(@)]
  ELSE LET pd == [mm EXCEPT !.mix = [MixerPad(@) EXCEPT !.calls = Append(@, <<"p">>)],
                            !.mp = <<MixerUpdate(@[1], bit)>>]
           fed == MixerFeed(pd, 1)
       IN  [fed EXCEPT !.mp = <<MixerP1(MixerSet(@[1], 0, 1))>>]

\* the value the last Mixer::p() returned
MixerPr(mm) == IF mm.mp = <<>> THEN mm.mix.pr[1] ELSE mm.mp[1].pr[1]

\* every weight of a Mixer record that differs from the constructor's value
Weights(mx) ==
  {mx.w0} \cup UNION {{mx.wx[row][k] : k \in 1..Len(mx.wx[row])} : row \in DOMAIN mx.wx}

---------------------------------------------------------------------------
(* BH<B>: the table is an array of elements of B bytes, a 16-bit checksum  *)
(* followed by B-2 value bytes, the first of them the priority.  An element*)
(* is [chk, v].  The table maps the base index of a bucket (a multiple of  *)
(* BH_M) to the BH_M elements from there on; a bucket that is not in the   *)
(* map is still all zero.                                                  *)

BH_M == 8      \* search limit
BH_B == 4      \* bytes per element of a RunContextMap's table

\* the Filetype memory option: MEM is 0x10000 << level
MEM == 65536 * (2 ^ 5)

\* BH(int i): n = i - 1 for RunContextMap(MEM), whose table is BH<4> t(m / 4)
BH_n == MEM \div 4 - 1

BHZero == [chk |-> 0, v |-> [b \in 1..(BH_B - 2) |-> 0]]

\* the elements i .. i+BH_M-1 of the table
Bucket(t, i) ==
  IF i \in DOMAIN t THEN t[i] ELSE [j \in 1..BH_M |-> BHZero]

\* int chk = (i >> 16 ^ i) & 0xffff
BHChk(key) == BitXor(key[1], key[2])

\* i = i * M & n, for n + 1 a power of two up to 2^19
BHIndex(key) == (key[2] * BH_M) % (BH_n + 1)

\* the for loop: the first j whose priority is 0 or whose checksum is chk, else M
RECURSIVE BHScan(_, _, _)
BHScan(b, chk, j) ==
  IF j = BH_M THEN BH_M
  ELSE IF b[j + 1].v[1] = 0 \/ b[j + 1].chk = chk THEN j
  ELSE BHScan(b, chk, j + 1)

\* a miss that always overwrites the last element
BHVictim_Last(b) == BH_M - 1

\* on a miss, the element to overwrite: the last, or the one before it when
\* the last has the higher priority
BHVictim(b) ==
  IF BH_M > 2 /\ b[BH_M].v[1] > b[BH_M - 1].v[1] THEN BH_M - 2 ELSE BH_M - 1

\* a move to the front that moves one element too few
BHMoveToFront_Short(b, j, tmp) ==
  [k \in 1..BH_M |->
     IF k = 1 THEN tmp
     ELSE IF k <= j THEN b[k - 1]
     ELSE b[k]]

\* a replacement that puts the front element in the place of element j
\* instead of moving the elements before j back
BHMoveToFront_Swap(b, j, tmp) ==
  [k \in 1..BH_M |->
     IF k = 1 THEN tmp
     ELSE IF k = j + 1 THEN b[1]
     ELSE b[k]]

\* a move to the front that moves one element too many
BHMoveToFront_Long(b, j, tmp) ==
  [k \in 1..BH_M |->
     IF k = 1 THEN tmp
     ELSE IF k <= j + 2 THEN b[k - 1]
     ELSE b[k]]

\* memmove(&t[(i+1)*B], &t[i*B], j*B); memcpy(&t[i*B], tmp, B)
BHMoveToFront(b, j, tmp) ==
  [k \in 1..BH_M |->
     IF k = 1 THEN tmp
     ELSE IF k <= j + 1 THEN b[k - 1]
     ELSE b[k]]

\* BH<B>::operator[](key): the bucket afterwards; the pointer returned is always
\* that of the bucket's first element
BHLookupBucket(b, chk) ==
  LET j == BHScan(b, chk, 0)
  IN  IF j = 0 THEN [b EXCEPT ![1].chk = chk]
      ELSE IF j = BH_M
        THEN BHMoveToFront(b, BHVictim(b), [BHZero EXCEPT !.chk = chk])
        ELSE BHMoveToFront(b, j, [b[j + 1] EXCEPT !.chk = chk])

\* a table no element of which has been written
BHInit == <<>>

BHLookup(t, key) ==
  (BHIndex(key) :> BHLookupBucket(Bucket(t, BHIndex(key)), BHChk(key))) @@ t

---------------------------------------------------------------------------
(* APM.  t is kept as far as it has been written: every other entry still  *)
(* has the constructor's value.                                            *)

\* APM::APM(n): t[i * 33 + j] = squash((j - 16) * 128) * 16 for every i
ApmDefault(i) == squash(((i % 33) - 16) * 128) * 16

ApmAt(t, i) == IF i \in DOMAIN t THEN t[i] ELSE ApmDefault(i)

\* arg is <<pr, cxt, rate>> of the last call of p(), <<>> before the first
ApmInit == [index |-> 0, t |-> <<>>, arg |-> <<>>]

\* APM::p with the target g = y << 16 alone
ApmP_PlainTarget(a, pr, cxt, rate, bit) ==
  With(stretch(pr), LAMBDA s :
  With(ApmAt(a.t, a.index), LAMBDA t0 :
  With(ApmAt(a.t, a.index + 1), LAMBDA t1 :
  With((a.index :> ((t0 + Shr(bit * 65536 - t0, rate)) % 65536))
       @@ ((a.index + 1) :> ((t1 + Shr(bit * 65536 - t1, rate)) % 65536))
       @@ a.t, LAMBDA t2 :
    LET w == s % 128
        idx == Shr(s + 2048, 7) + cxt * 33
    IN  [a |-> [index |-> idx, t |-> t2, arg |-> <<pr, cxt, rate>>],
         p |-> Shr(ApmAt(t2, idx) * (128 - w) + ApmAt(t2, idx + 1) * w, 11)]))))

\* an update that moves the entry by the whole of g - t
ApmStep_NoShift(t0, rate, bit) ==
  t0 + (bit * 65536 + bit * (2 ^ rate) - bit - bit - t0)

\* t[index] + (g - t[index] >> rate) with g = (y << 16) + (y << rate) - y - y,
\* as an int, before it is stored in the U16
ApmStep(t0, rate, bit) ==
  t0 + Shr(bit * 65536 + bit * (2 ^ rate) - bit - bit - t0, rate)

\* APM::p(pr, cxt, rate) with the global y = bit: a is the APM after the
\* call and p the value returned
ApmP(a, pr, cxt, rate, bit) ==
  With(stretch(pr), LAMBDA s :
  With(ApmAt(a.t, a.index), LAMBDA t0 :
  With(ApmAt(a.t, a.index + 1), LAMBDA t1 :
  With((a.index :> (ApmStep(t0, rate, bit) % 65536))
       @@ ((a.index + 1) :> (ApmStep(t1, rate, bit) % 65536))
       @@ a.t, LAMBDA t2 :
    LET w == s % 128
        idx == Shr(s + 2048, 7) + cxt * 33
    IN  [a |-> [index |-> idx, t |-> t2, arg |-> <<pr, cxt, rate>>],
         p |-> Shr(ApmAt(t2, idx) * (128 - w) + ApmAt(t2, idx + 1) * w, 11)]))))

---------------------------------------------------------------------------
(* StateMap, its table kept as far as it has been written.                 *)

\* StateMap::StateMap(): t[i]
SmDefault(i) ==
  With(nex(i, 2), LAMBDA n0 :
  With(nex(i, 3), LAMBDA n1 :
    LET m1 == IF n0 = 0 THEN n1 * 64 ELSE n1
        m0 == IF n1 = 0 THEN n0 * 64 ELSE n0
    IN  (65536 * (m1 + 1)) \div (m0 + m1 + 2)))

SmAt(t, i) == IF i \in DOMAIN t THEN t[i] ELSE SmDefault(i)

SmInit == [cxt |-> 0, t |-> <<>>]

\* StateMap::p(cx) without the rounding term of the update
SmP_NoRound(sm, cx, bit) ==
  With(SmAt(sm.t, sm.cxt), LAMBDA t0 :
  With((sm.cxt :> ((t0 + Shr(bit * 65536 - t0, 8)) % 65536)) @@ sm.t,
       LAMBDA t2 :
    [sm |-> [cxt |-> cx, t |-> t2], p |-> Shr(SmAt(t2, cx), 4)]))

\* t[cxt] + ((y << 16) - t[cxt] + 128 >> 8), as an int, before it is stored
\* in the U16
SmStep(t0, bit) == t0 + Shr(bit * 65536 - t0 + 128, 8)

\* StateMap::p(cx) with the global y = bit
SmP(sm, cx, bit) ==
  With(SmAt(sm.t, sm.cxt), LAMBDA t0 :
  With((sm.cxt :> (SmStep(t0, bit) % 65536)) @@ sm.t,
       LAMBDA t2 :
    [sm |-> [cxt |-> cx, t |-> t2], p |-> Shr(SmAt(t2, cx), 4)]))

---------------------------------------------------------------------------
(* hash(a, b, c, d, e) on U32 values.                                      *)

AllOnes == <<65535, 65535>>

hash(a, b, c, d, e) ==
  With(U32Add(U32Add(U32Add(U32Add(U32Mul(a, ToU32(200002979)),
                                   U32Mul(b, ToU32(30005491))),
                            U32Mul(c, ToU32(50004239))),
                     U32Mul(d, ToU32(70004807))),
              U32Mul(e, ToU32(110002499))), LAMBDA h :
    U32Xor(U32Xor(U32Xor(U32Xor(U32Xor(U32Xor(h, U32Shr(h, 9)),
                                       U32Shr(a, 2)),
                                U32Shr(b, 3)),
                         U32Shr(c, 4)),
                  U32Shr(d, 5)),
           U32Shr(e, 6)))

---------------------------------------------------------------------------
(* The global context: c0, c4 (a U32), bpos, pos and buf.  buf is kept as  *)
(* the bytes stored so far, buf[0..pos-1]; the array has 16777216 bytes,   *)
(* all zero at first, so that buf(i) for i > pos reads a zero.             *)

CtxInit == [c0 |-> 1, c4 |-> <<0, 0>>, bpos |-> 0, pos |-> 0, buf |-> <<>>]

\* Buf::operator()(i): the i'th byte back from pos
BufAt(g, i) == IF i <= g.pos THEN g.buf[g.pos - i + 1] ELSE 0

---------------------------------------------------------------------------
(* ContextMap.  t maps the index of a hash element that has been written   *)
(* to the element, [chk, last, bh]; every other element is zero.  A pointer*)
(* into t is <<element, row, column>> of bh, the null pointer is <<>>.     *)

EZero ==
  [chk |-> [k \in 1..7 |-> 0], last |-> 0,
   bh |-> [r \in 1..7 |-> [c \in 1..7 |-> 0]]]

Null == <<>>

TAt(t, e) == IF e \in DOMAIN t THEN t[e] ELSE EZero

Peek(t, ptr) == TAt(t, ptr[1]).bh[ptr[2] + 1][ptr[3] + 1]

Poke(t, ptr, v) ==
  (ptr[1] :> [TAt(t, ptr[1]) EXCEPT !.bh[ptr[2] + 1][ptr[3] + 1] = v]) @@ t

PtrAdd(ptr, k) == <<ptr[1], ptr[2], ptr[3] + k>>

\* a scan that spares the last element accessed only
RECURSIVE EScan_LastOnly(_, _, _, _)
EScan_LastOnly(e, i, b, bi) ==
  IF i = 7 THEN bi
  ELSE IF (e.last % 16) # i /\ e.bh[i + 1][1] < b
    THEN EScan_LastOnly(e, i + 1, e.bh[i + 1][1], i)
    ELSE EScan_LastOnly(e, i + 1, b, bi)

\* a scan that spares no row
RECURSIVE EScan_SpareNone(_, _, _, _)
EScan_SpareNone(e, i, b, bi) ==
  IF i = 7 THEN bi
  ELSE IF e.bh[i + 1][1] < b
    THEN EScan_SpareNone(e, i + 1, e.bh[i + 1][1], i)
    ELSE EScan_SpareNone(e, i + 1, b, bi)

\* E::get, the loop from i on when no checksum matches: the row of lowest
\* priority that is not one of the last two accessed
RECURSIVE EScan(_, _, _, _)
EScan(e, i, b, bi) ==
  IF i = 7 THEN bi
  ELSE IF (e.last % 16) # i /\ (e.last \div 16) # i /\ e.bh[i + 1][1] < b
    THEN EScan(e, i + 1, e.bh[i + 1][1], i)
    ELSE EScan(e, i + 1, b, bi)

\* a get that leaves last alone when it finds the checksum in the scan
EGet_KeepLast(e, ch) ==
  IF e.chk[(e.last % 16) + 1] = ch THEN [e |-> e, row |-> e.last % 16]
  ELSE IF \E i \in 0..6 : e.chk[i + 1] = ch
    THEN LET i == CHOOSE i \in 0..6 :
                    /\ e.chk[i + 1] = ch
                    /\ \A k \in 0..6 : e.chk[k + 1] = ch => i <= k
         IN  [e |-> e, row |-> i]
    ELSE LET bi == EScan(e, 0, 65535, 0)
         IN  [e |-> [e EXCEPT !.last = 240 + bi,
                              !.chk[bi + 1] = ch,
                              !.bh[bi + 1] = [c \in 1..7 |-> 0]],
              row |-> bi]

\* E::get(ch): the element after the call and the row whose bh is returned
EGet(e, ch) ==
  IF e.chk[(e.last % 16) + 1] = ch THEN [e |-> e, row |-> e.last % 16]
  ELSE IF \E i \in 0..6 : e.chk[i + 1] = ch
    THEN LET i == CHOOSE i \in 0..6 :
                    /\ e.chk[i + 1] = ch
                    /\ \A k \in 0..6 : e.chk[k + 1] = ch => i <= k
         IN  [e |-> [e EXCEPT !.last = (e.last * 16 + i) % 256], row |-> i]
    ELSE LET bi == EScan(e, 0, 65535, 0)
         IN  [e |-> [e EXCEPT !.last = 240 + bi,
                              !.chk[bi + 1] = ch,
                              !.bh[bi + 1] = [c \in 1..7 |-> 0]],
              row |-> bi]

\* ContextMap::ContextMap(m, c)
CmInit(mem, c) ==
  [C |-> c, size |-> mem \div 64, t |-> <<>>,
   cp |-> [i \in 1..c |-> <<0, 0, 0>>],
   cp0 |-> [i \in 1..c |-> <<0, 0, 0>>],
   cxt |-> [i \in 1..c |-> <<0, 0>>],
   runp |-> [i \in 1..c |-> <<0, 0, 3>>],
   sm |-> [i \in 1..c |-> SmInit],
   cn |-> 0, pend |-> {},
   key |-> [i \in 1..c |-> -1], since |-> [i \in 1..c |-> 0], trained |-> {}]

\* ContextMap::set(cx)
CmSet(cm, cx) ==
  LET i == cm.cn
      c1 == U32Add(U32Mul(cx, ToU32(987654323)), ToU32(i))
      c2 == <<c1[2], c1[1]>>
  IN  [cm EXCEPT !.cn = i + 1,
                 !.cxt[i + 1] = U32Add(U32Mul(c2, ToU32(123456791)), ToU32(i))]

\* cxt + add & t.size() - 1
CmIndex(cm, cx, add) == ((cx[1] % 16) * 65536 + cx[2] + add) % cm.size

\* t[cx + add & t.size() - 1].get(cx >> 16): the table after the call and
\* the pointer returned
CmGet(cm, t, cx, add) ==
  LET idx == CmIndex(cm, cx, add)
      g == EGet(TAt(t, idx), cx[1])
  IN  [t |-> (idx :> g.e) @@ t, p |-> <<idx, g.row, 0>>]

\* the world w is the record of every object the predictor works on
Madd(w, x) == [w EXCEPT !.m.mix = MixerAdd(@, x)]

\* x & mask for a mask that is 0 or -1
AndMask(x, mask) == IF mask = 0 THEN 0 ELSE x

\* mix2(m, s, sm[i])
mix2(w, s, i) ==
  With(SmP(w.cm.sm[i + 1], s, w.y), LAMBDA r :
  With(IF nex(s, 2) = 0 THEN -1 ELSE 0, LAMBDA n0 :
  With(IF nex(s, 3) = 0 THEN -1 ELSE 0, LAMBDA n1 :
  With(Shr(stretch(r.p), 2), LAMBDA st :
    LET p1 == Shr(r.p, 4)
        p0 == 255 - p1
        w1 == [w EXCEPT !.cm.sm[i + 1] = r.sm,
                        !.result = @ + (IF s > 0 THEN 1 ELSE 0)]
    IN  Madd(Madd(Madd(Madd(Madd(w1, st), p1 - p0), st * (n1 - n0)),
                  AndMask(p1, n0) - AndMask(p0, n1)),
             AndMask(p1, n1) - AndMask(p0, n0))))))

\* what mix1 found as it trained through cp[i] = cpi: whether context i has
\* looked an element up yet, whether the row of cpi has the checksum of that
\* lookup, and the number of calls of E::get on that element since
CmTrained(cm, i, cpi) ==
  [i |-> i, asked |-> cm.key[i + 1] # -1,
   keyed |-> TAt(cm.t, cpi[1]).chk[cpi[2] + 1] = cm.key[i + 1],
   since |-> cm.since[i + 1]]

\* the counts of calls of E::get since the lookup of each context, after a
\* call on element idx
CmSince(since, cp0, idx) ==
  [k \in DOMAIN since |-> IF cp0[k][1] = idx THEN since[k] + 1 ELSE since[k]]

\* mix1, context i: update the model with y1
CmTrain(w, i, y1) ==
  With(w.cm.cp[i + 1], LAMBDA cpi :
    IF cpi = Null THEN w
    ELSE With(Peek(w.cm.t, cpi), LAMBDA s0 :
         With(IF nex(s0, y1) >= 204 THEN RandomNext(w.rnd) ELSE w.rnd,
              LAMBDA rnd1 :
           [w EXCEPT !.rnd = rnd1,
                     !.cm.t = Poke(@, cpi, TrainState(s0, y1, RandomLast(rnd1))),
                     !.cm.trained = @ \cup {CmTrained(w.cm, i, cpi)}])))

\* a rebuild that ends by clearing the count byte p0[3] instead of p0[6]
CmPending_ClearMarker(cm, t, i, p0) ==
  With(Peek(t, PtrAdd(p0, 4)) + 256, LAMBDA c :
  With(CmGet(cm, t, cm.cxt[i + 1], Shr(c, 6)), LAMBDA g1 :
  With(Poke(Poke(Poke(g1.t, g1.p, 1 + (Shr(c, 5) % 2)),
                 PtrAdd(g1.p, 1 + (Shr(c, 5) % 2)), 1 + (Shr(c, 4) % 2)),
            PtrAdd(g1.p, 3 + (Shr(c, 4) % 4)), 1 + (Shr(c, 3) % 2)), LAMBDA t1 :
  With(CmGet(cm, t1, cm.cxt[i + 1], Shr(c, 3)), LAMBDA g2 :
  With(Poke(Poke(Poke(g2.t, g2.p, 1 + (Shr(c, 2) % 2)),
                 PtrAdd(g2.p, 1 + (Shr(c, 2) % 2)), 1 + (Shr(c, 1) % 2)),
            PtrAdd(g2.p, 3 + (Shr(c, 1) % 4)), 1 + (c % 2)), LAMBDA t2 :
    Poke(t2, PtrAdd(p0, 3), 0))))))

\* mix1, bpos = 0: update the pending bit histories for bits 2-7
CmPending(cm, t, i, p0) ==
  With(Peek(t, PtrAdd(p0, 4)) + 256, LAMBDA c :
  With(CmGet(cm, t, cm.cxt[i + 1], Shr(c, 6)), LAMBDA g1 :
  With(Poke(Poke(Poke(g1.t, g1.p, 1 + (Shr(c, 5) % 2)),
                 PtrAdd(g1.p, 1 + (Shr(c, 5) % 2)), 1 + (Shr(c, 4) % 2)),
            PtrAdd(g1.p, 3 + (Shr(c, 4) % 4)), 1 + (Shr(c, 3) % 2)), LAMBDA t1 :
  With(CmGet(cm, t1, cm.cxt[i + 1], Shr(c, 3)), LAMBDA g2 :
  With(Poke(Poke(Poke(g2.t, g2.p, 1 + (Shr(c, 2) % 2)),
                 PtrAdd(g2.p, 1 + (Shr(c, 2) % 2)), 1 + (Shr(c, 1) % 2)),
            PtrAdd(g2.p, 3 + (Shr(c, 1) % 4)), 1 + (c % 2)), LAMBDA t2 :
    Poke(t2, PtrAdd(p0, 6), 0))))))

\* mix1, bpos = 0: update the run count of the previous context
CmRun(t, runp, c1) ==
  With(Peek(t, runp), LAMBDA r0 :
  With(Peek(t, PtrAdd(runp, 1)), LAMBDA r1 :
    IF r0 = 0 THEN Poke(Poke(t, runp, 2), PtrAdd(runp, 1), c1)
    ELSE IF r1 # c1 THEN Poke(Poke(t, runp, 1), PtrAdd(runp, 1), c1)
    ELSE IF r0 < 254 THEN Poke(t, runp, r0 + 2)
    ELSE IF r0 = 255 THEN Poke(t, runp, 128)
    ELSE t))

\* what the rebuild for context i left at p0: the marker p0[3], the byte
\* p0[6], and whether runp[i] was at p0 + 3 already
CmRebuilt(cm, t, i, p0) ==
  [i |-> i, marker |-> Peek(t, PtrAdd(p0, 3)), b6 |-> Peek(t, PtrAdd(p0, 6)),
   same |-> cm.runp[i + 1] = PtrAdd(p0, 3)]

\* a pointer update that follows the contexts that were not seen before as
\* well
CmPoint_NoSkip(w, i, cc, bp, c1) ==
  With(w.cm, LAMBDA cm :
    IF bp \in {1, 3, 6}
      THEN [w EXCEPT !.cm.cp[i + 1] = PtrAdd(cm.cp0[i + 1], 1 + (cc % 2))]
    ELSE IF bp \in {4, 7}
      THEN [w EXCEPT !.cm.cp[i + 1] = PtrAdd(cm.cp0[i + 1], 3 + (cc % 4))]
    ELSE With(CmGet(cm, cm.t, cm.cxt[i + 1], cc), LAMBDA g :
         With(IF bp = 0 /\ Peek(g.t, PtrAdd(g.p, 3)) = 2
                THEN CmPending(cm, g.t, i, g.p) ELSE g.t, LAMBDA t1 :
         With(IF bp = 0 THEN CmRun(t1, cm.runp[i + 1], c1) ELSE t1, LAMBDA t2 :
           [w EXCEPT !.cm.t = t2,
                     !.cm.cp0[i + 1] = g.p,
                     !.cm.cp[i + 1] = g.p,
                     !.cm.runp[i + 1] = IF bp = 0 THEN PtrAdd(g.p, 3) ELSE @,
                     !.cm.pend = IF bp = 0 /\ Peek(g.t, PtrAdd(g.p, 3)) = 2
                                   THEN @ \cup {CmRebuilt(cm, t1, i, g.p)}
                                   ELSE @]))))

\* the counts since after the lookup g of context i and, when the rebuild
\* is made, its two lookups
CmLookedUp(cm, g, i, bp) ==
  With([cm.cp0 EXCEPT ![i + 1] = g.p], LAMBDA cp0 :
  With([CmSince(cm.since, cm.cp0, g.p[1]) EXCEPT ![i + 1] = 0], LAMBDA s0 :
    IF bp = 0 /\ Peek(g.t, PtrAdd(g.p, 3)) = 2
      THEN With(Peek(g.t, PtrAdd(g.p, 4)) + 256, LAMBDA c :
             CmSince(CmSince(s0, cp0, CmIndex(cm, cm.cxt[i + 1], Shr(c, 6))),
                     cp0, CmIndex(cm, cm.cxt[i + 1], Shr(c, 3))))
      ELSE s0))

\* mix1, context i: update the context pointers
CmPoint(w, i, cc, bp, c1) ==
  With(w.cm, LAMBDA cm :
    IF bp > 1 /\ Peek(cm.t, cm.runp[i + 1]) = 0
      THEN [w EXCEPT !.cm.cp[i + 1] = Null]
    ELSE IF bp \in {1, 3, 6}
      THEN [w EXCEPT !.cm.cp[i + 1] = PtrAdd(cm.cp0[i + 1], 1 + (cc % 2))]
    ELSE IF bp \in {4, 7}
      THEN [w EXCEPT !.cm.cp[i + 1] = PtrAdd(cm.cp0[i + 1], 3 + (cc % 4))]
    ELSE With(CmGet(cm, cm.t, cm.cxt[i + 1], cc), LAMBDA g :
         With(IF bp = 0 /\ Peek(g.t, PtrAdd(g.p, 3)) = 2
                THEN CmPending(cm, g.t, i, g.p) ELSE g.t, LAMBDA t1 :
         With(IF bp = 0 THEN CmRun(t1, cm.runp[i + 1], c1) ELSE t1, LAMBDA t2 :
           [w EXCEPT !.cm.t = t2,
                     !.cm.cp0[i + 1] = g.p,
                     !.cm.cp[i + 1] = g.p,
                     !.cm.runp[i + 1] = IF bp = 0 THEN PtrAdd(g.p, 3) ELSE @,
                     !.cm.pend = IF bp = 0 /\ Peek(g.t, PtrAdd(g.p, 3)) = 2
                                   THEN @ \cup {CmRebuilt(cm, t1, i, g.p)}
                                   ELSE @,
                     !.cm.key[i + 1] = cm.cxt[i + 1][1],
                     !.cm.since = CmLookedUp(cm, g, i, bp)]))))

\* mix1, context i: predict from the last byte in context and from the bit
\* context
CmPredict(w, i, cc, bp) ==
  With(Peek(w.cm.t, w.cm.runp[i + 1]), LAMBDA rc :
  With(Peek(w.cm.t, PtrAdd(w.cm.runp[i + 1], 1)), LAMBDA rv :
  With(IF Shr(rv + 256, 8 - bp) = cc
         THEN Madd(w, ((Shr(rv, 7 - bp) % 2) * 2 - 1)
                      * (ilog(rc + 1) * 2 ^ (2 + (1 - (rc % 2)))))
         ELSE Madd(w, 0), LAMBDA w1 :
  With(w1.cm.cp[i + 1], LAMBDA cpi :
    mix2(w1, IF cpi = Null THEN 0 ELSE Peek(w1.cm.t, cpi), i)))))

\* a loop that leaves out the last context set
RECURSIVE CmLoop_SkipLast(_, _, _, _, _, _)
CmLoop_SkipLast(w, i, cc, bp, c1, y1) ==
  IF i >= w.cm.cn - 1 THEN w
  ELSE CmLoop_SkipLast(CmPredict(CmPoint(CmTrain(w, i, y1), i, cc, bp, c1),
                                 i, cc, bp),
                       i + 1, cc, bp, c1, y1)

\* mix1, the loop from context i on
RECURSIVE CmLoop(_, _, _, _, _, _)
CmLoop(w, i, cc, bp, c1, y1) ==
  IF i >= w.cm.cn THEN w
  ELSE CmLoop(CmPredict(CmPoint(CmTrain(w, i, y1), i, cc, bp, c1), i, cc, bp),
              i + 1, cc, bp, c1, y1)

\* ContextMap::mix(m) = mix1(m, c0, bpos, buf(1), y); the value returned is
\* left in result
CmMix(w) ==
  With(CmLoop([w EXCEPT !.result = 0, !.cm.pend = {}, !.cm.trained = {}],
               0, w.c0, w.bpos,
               BufAt(w, 1), w.y),
       LAMBDA w1 :
    IF w.bpos = 7 THEN [w1 EXCEPT !.cm.cn = 0] ELSE w1)

---------------------------------------------------------------------------
(* RunContextMap: a BH<4> table t and the pointer cp, which is always at   *)
(* the value bytes of the first element of a bucket and is kept as the     *)
(* base index of the bucket.                                               *)

\* RunContextMap::RunContextMap(m): cp = t[0] + 1
RcmInit == [t |-> BHLookup(BHInit, <<0, 0>>), cp |-> BHIndex(<<0, 0>>)]

\* RunContextMap::set(cx), with b1 = buf(1)
RcmSet(r, cx, b1) ==
  With(Bucket(r.t, r.cp)[1].v, LAMBDA v :
    LET v1 == IF v[1] = 0 \/ v[2] # b1 THEN <<1, b1>>
              ELSE IF v[1] < 255 THEN <<v[1] + 1, v[2]>>
              ELSE v
    IN  [t |-> BHLookup([r.t EXCEPT ![r.cp][1].v = v1], cx), cp |-> BHIndex(cx)])

\* RunContextMap::p()
RcmP(r, bp, cc) ==
  With(Bucket(r.t, r.cp)[1].v, LAMBDA v :
    IF Shr(v[2] + 256, 8 - bp) = cc
      THEN ((Shr(v[2], 7 - bp) % 2) * 2 - 1) * ilog(v[1] + 1) * 8
      ELSE 0)

---------------------------------------------------------------------------
(* contextModel2 and its static objects.                                   *)

EXE == 2

\* static ContextMap cm(MEM * 32, 9); static RunContextMap rcm7(MEM), ...;
\* static U32 cxt[16]; static Filetype filetype = DEFAULT; static int size = 0;
\* static APM a(256), a1(0x10000), ..., a6(0x10000); rnd
StatInit ==
  [cm |-> CmInit(MEM * 32, 9), rcm7 |-> RcmInit, rcm9 |-> RcmInit,
   rcm10 |-> RcmInit, cxt |-> [i \in 1..16 |-> <<0, 0>>],
   filetype |-> 0, size |-> 0,
   apm |-> [k \in 1..7 |-> ApmInit], rnd |-> RandomInit]

\* the size field read with its first byte least significant
SizeField_LittleEndian(w) ==
  <<BufAt(w, 1) * 256 + BufAt(w, 2), BufAt(w, 3) * 256 + BufAt(w, 4)>>

\* buf(4) << 24 | buf(3) << 16 | buf(2) << 8 | buf(1), the bits of the int
SizeField(w) ==
  <<BufAt(w, 4) * 256 + BufAt(w, 3), BufAt(w, 2) * 256 + BufAt(w, 1)>>

\* the bits of an int (two's complement)
IntToU32(n) == <<(n \div 65536) % 65536, n % 65536>>

\* contextModel2: parse filetype and size
Framing(w) ==
  IF w.bpos # 0 THEN w
  ELSE With(U32ToInt(U32Add(IntToU32(w.size), AllOnes)), LAMBDA size1 :
       With(IF size1 = -1 THEN BufAt(w, 1) ELSE w.filetype, LAMBDA ft :
         [w EXCEPT !.filetype = ft,
                   !.size = IF size1 # -5 THEN size1
                            ELSE IF ft = EXE
                              THEN U32ToInt(U32Add(SizeField(w), ToU32(8)))
                            ELSE U32ToInt(SizeField(w))]))

\* a chain in which every hash is continued from itself
NextCxt_SameOrder(w) ==
  [i \in 1..16 |->
     IF i = 1 THEN w.cxt[1]
     ELSE U32Add(U32Mul(w.cxt[i], ToU32(257)), ToU32((w.c4[2] % 256) + 1))]

\* for (i = 15; i > 0; --i) cxt[i] = cxt[i - 1] * 257 + (c4 & 255) + 1
NextCxt(w) ==
  [i \in 1..16 |->
     IF i = 1 THEN w.cxt[1]
     ELSE U32Add(U32Mul(w.cxt[i - 1], ToU32(257)), ToU32((w.c4[2] % 256) + 1))]

\* contextModel2, if (bpos == 0): the order 0-11 context hashes and the sets
SetContexts(w) ==
  IF w.bpos # 0 THEN w
  ELSE With(NextCxt(w), LAMBDA cx :
       With(BufAt(w, 1), LAMBDA b1 :
         [w EXCEPT
            !.cxt = cx,
            !.cm = CmSet(CmSet(CmSet(CmSet(CmSet(CmSet(CmSet(CmSet(CmSet(@,
                     cx[1]), cx[2]), cx[3]), cx[4]), cx[5]), cx[6]), cx[7]),
                     cx[9]), cx[15]),
            !.rcm7 = RcmSet(@, cx[8], b1),
            !.rcm9 = RcmSet(@, cx[11], b1),
            !.rcm10 = RcmSet(@, cx[13], b1)]))

Min(a, b) == IF a < b THEN a ELSE b

\* the six calls of m.set, the last without the mask 192 of c
SelectSets_NoMask(w) ==
  LET order == IF w.result - 2 < 0 THEN 0 ELSE w.result - 2
      c1 == BufAt(w, 1)
      c2 == BufAt(w, 2)
      c3 == BufAt(w, 3)
      cb == (w.c0 * 2 ^ (8 - w.bpos)) + (IF w.bpos = 1 THEN c3 \div 2 ELSE 0)
      c == IF w.bpos # 0
             THEN Min(w.bpos, 5) * 256 + c1 \div 32 + 8 * (c2 \div 32)
                  + cb
             ELSE c3 \div 128 + (w.c4[1] \div 32768) * 2 + 4 * (c2 \div 64)
                  + (c1 - (c1 % 16))
      s1 == MixerSet(w.m.mix, c1 + 8, 264)
      s2 == MixerSet(s1, w.c0, 256)
      s3 == MixerSet(s2, order + 8 * ((w.c4[2] \div 32) % 8)
                         + 64 * (IF c1 = c2 THEN 1 ELSE 0)
                         + 128 * (IF w.filetype = EXE THEN 1 ELSE 0), 256)
      s4 == MixerSet(s3, c2, 256)
      s5 == MixerSet(s4, c3, 256)
  IN  [w EXCEPT !.m.mix = MixerSet(s5, c, 1536)]

\* contextModel2: the six calls of m.set
SelectSets(w) ==
  LET order == IF w.result - 2 < 0 THEN 0 ELSE w.result - 2
      c1 == BufAt(w, 1)
      c2 == BufAt(w, 2)
      c3 == BufAt(w, 3)
      cb == (w.c0 * 2 ^ (8 - w.bpos)) + (IF w.bpos = 1 THEN c3 \div 2 ELSE 0)
      c == IF w.bpos # 0
             THEN Min(w.bpos, 5) * 256 + c1 \div 32 + 8 * (c2 \div 32)
                  + ((cb % 256) - (cb % 64))
             ELSE c3 \div 128 + (w.c4[1] \div 32768) * 2 + 4 * (c2 \div 64)
                  + (c1 - (c1 % 16))
      s1 == MixerSet(w.m.mix, c1 + 8, 264)
      s2 == MixerSet(s1, w.c0, 256)
      s3 == MixerSet(s2, order + 8 * ((w.c4[2] \div 32) % 8)
                         + 64 * (IF c1 = c2 THEN 1 ELSE 0)
                         + 128 * (IF w.filetype = EXE THEN 1 ELSE 0), 256)
      s4 == MixerSet(s3, c2, 256)
      s5 == MixerSet(s4, c3, 256)
  IN  [w EXCEPT !.m.mix = MixerSet(s5, c, 1536)]

\* a contextModel2 that adds the input of rcm10 after the sets are selected
contextModel2_LateAdd(w) ==
  With(Framing(w), LAMBDA w1 :
  With(Madd([w1 EXCEPT !.m.mix = MixerUpdate(@, w.y)], 256), LAMBDA w2 :
  With(CmMix(SetContexts(w2)), LAMBDA w3 :
  With(Madd(w3, RcmP(w3.rcm7, w3.bpos, w3.c0)), LAMBDA w4 :
  With(Madd(w4, RcmP(w3.rcm9, w3.bpos, w3.c0)), LAMBDA w5 :
  With(SelectSets(w5), LAMBDA w6 :
  With(Madd(w6, RcmP(w3.rcm10, w3.bpos, w3.c0)), LAMBDA w7 :
    [w7 EXCEPT !.m = MixerP(@, w.y)])))))))

\* contextModel2(); the value returned is MixerPr(w.m)
contextModel2(w) ==
  With(Framing(w), LAMBDA w1 :
  With(Madd([w1 EXCEPT !.m.mix = MixerUpdate(@, w.y)], 256), LAMBDA w2 :
  With(CmMix(SetContexts(w2)), LAMBDA w3 :
  With(Madd(w3, RcmP(w3.rcm7, w3.bpos, w3.c0)), LAMBDA w4 :
  With(Madd(w4, RcmP(w3.rcm9, w3.bpos, w3.c0)), LAMBDA w5 :
  With(Madd(w5, RcmP(w3.rcm10, w3.bpos, w3.c0)), LAMBDA w6 :
  With(SelectSets(w6), LAMBDA w7 :
    [w7 EXCEPT !.m = MixerP(@, w.y)])))))))

---------------------------------------------------------------------------
(* Predictor.                                                              *)

FoldBit_NoShift(c, bit) == c + bit

\* c0 += c0 + y
FoldBit(c, bit) == c + c + bit

PushByte_NoShift(c4, c) == U32Add(c4, ToU32(c - 256))

\* c4 = (c4 << 8) + c0 - 256
PushByte(c4, c) == U32Add(U32Shl8(c4), ToU32(c - 256))

\* Predictor::update(): update global context: pos, bpos, c0, c4, buf
UpdateContext(w) ==
  LET c == FoldBit(w.c0, w.y)
  IN  IF c >= 256
        THEN [w EXCEPT !.buf = Append(@, c % 256),
                       !.pos = @ + 1,
                       !.c4 = PushByte(@, c),
                       !.c0 = 1,
                       !.bpos = (@ + 1) % 8]
        ELSE [w EXCEPT !.c0 = c, !.bpos = (@ + 1) % 8]

Average2_NoShift(a, b) == a + b + 1

\* pr = pr + pr0 + 1 >> 1
Average2(a, b) == Shr(a + b + 1, 1)

\* the filter with the last two bytes in the context of a1 and a4
Filter_TwoBytes(w) ==
  With(MixerPr(w.m), LAMBDA pr0 :
  With(w.c0 + 256 * w.c4[2], LAMBDA cx1 :
  With(BitXor(w.c0, hash(ToU32(BufAt(w, 1)), ToU32(BufAt(w, 2)),
                         AllOnes, AllOnes, AllOnes)[2]), LAMBDA cx2 :
  With(BitXor(w.c0, hash(ToU32(BufAt(w, 1)), ToU32(BufAt(w, 2)),
                         ToU32(BufAt(w, 3)), AllOnes, AllOnes)[2]), LAMBDA cx3 :
  With(ApmP(w.apm[1], pr0, w.c0, 7, w.y), LAMBDA r0 :
  With(ApmP(w.apm[2], pr0, cx1, 7, w.y), LAMBDA r1 :
  With(ApmP(w.apm[3], pr0, cx2, 7, w.y), LAMBDA r2 :
  With(ApmP(w.apm[4], pr0, cx3, 7, w.y), LAMBDA r3 :
  With(ApmP(w.apm[5], r0.p, cx1, 7, w.y), LAMBDA r4 :
  With(ApmP(w.apm[6], r0.p, cx2, 7, w.y), LAMBDA r5 :
  With(ApmP(w.apm[7], r0.p, cx3, 7, w.y), LAMBDA r6 :
    [w EXCEPT !.apm = <<r0.a, r1.a, r2.a, r3.a, r4.a, r5.a, r6.a>>,
              !.pr = Average2(Shr(r0.p + r4.p + r5.p + r6.p + 2, 2),
                              Shr(pr0 + r1.p + r2.p + r3.p + 2, 2))])))))))))))

\* Predictor::update(): filter the context model with APMs
Filter(w) ==
  With(MixerPr(w.m), LAMBDA pr0 :
  With(w.c0 + 256 * BufAt(w, 1), LAMBDA cx1 :
  With(BitXor(w.c0, hash(ToU32(BufAt(w, 1)), ToU32(BufAt(w, 2)),
                         AllOnes, AllOnes, AllOnes)[2]), LAMBDA cx2 :
  With(BitXor(w.c0, hash(ToU32(BufAt(w, 1)), ToU32(BufAt(w, 2)),
                         ToU32(BufAt(w, 3)), AllOnes, AllOnes)[2]), LAMBDA cx3 :
  With(ApmP(w.apm[1], pr0, w.c0, 7, w.y), LAMBDA r0 :
  With(ApmP(w.apm[2], pr0, cx1, 7, w.y), LAMBDA r1 :
  With(ApmP(w.apm[3], pr0, cx2, 7, w.y), LAMBDA r2 :
  With(ApmP(w.apm[4], pr0, cx3, 7, w.y), LAMBDA r3 :
  With(ApmP(w.apm[5], r0.p, cx1, 7, w.y), LAMBDA r4 :
  With(ApmP(w.apm[6], r0.p, cx2, 7, w.y), LAMBDA r5 :
  With(ApmP(w.apm[7], r0.p, cx3, 7, w.y), LAMBDA r6 :
    [w EXCEPT !.apm = <<r0.a, r1.a, r2.a, r3.a, r4.a, r5.a, r6.a>>,
              !.pr = Average2(Shr(r0.p + r4.p + r5.p + r6.p + 2, 2),
                              Shr(pr0 + r1.p + r2.p + r3.p + 2, 2))])))))))))))

\* Predictor::update() with the global y = w.y
PredictorUpdate(w) == Filter(contextModel2(UpdateContext(w)))

\* the objects as one record, for one call of Predictor::update()
World(bit, g, mm, st, p) ==
  [y |-> bit, c0 |-> g.c0, c4 |-> g.c4, bpos |-> g.bpos, pos |-> g.pos,
   buf |-> g.buf, m |-> mm, cm |-> st.cm, rcm7 |-> st.rcm7, rcm9 |-> st.rcm9,
   rcm10 |-> st.rcm10, cxt |-> st.cxt, filetype |-> st.filetype,
   size |-> st.size, apm |-> st.apm, rnd |-> st.rnd, result |-> 0, pr |-> p.pr]

CtxOf(w) == [c0 |-> w.c0, c4 |-> w.c4, bpos |-> w.bpos, pos |-> w.pos, buf |-> w.buf]

StatOf(w) ==
  [cm |-> w.cm, rcm7 |-> w.rcm7, rcm9 |-> w.rcm9, rcm10 |-> w.rcm10,
   cxt |-> w.cxt, filetype |-> w.filetype, size |-> w.size, apm |-> w.apm,
   rnd |-> w.rnd]

---------------------------------------------------------------------------
(* Initial values of the program's objects.                                *)

\* a bit-history byte of the zero-filled ContextMap table, not yet trained
HistInit == [s |-> 0, trained |-> FALSE, rolled |-> FALSE]

ProbeIdle == [dom0 |-> "d", trail |-> <<0>>]

\* static Mixer m(800, 3088, 7, 128) of contextModel2
MixerInit == MixerNew(800, 3088, 7, 128)

CallerIdle == [pc |-> "update", round |-> 0]

\* BH(int i): the zero-filled table, and a user that has not called yet
BHUserInit ==
  [ptr |-> -1, key |-> <<0, 0>>, op |-> "none", n |-> 0, fresh |-> 0,
   lru |-> <<>>, written |-> <<>>, found |-> 0, victim |-> {}, oldest |-> <<>>,
   oldpri |-> <<>>, bare |-> {}, detours |-> 0]

\* Predictor::Predictor() : pr(2048)
PredInit == [pr |-> 2048]

\* the coder has constructed its first Predictor and coded nothing: sym is
\* the byte it is coding, runs has for every Predictor constructed the bits
\* passed to update() and the values of p() after each call
CoderInit == [sym |-> 0, runs |-> <<[bits |-> <<>>, ps |-> <<>>]>>]

\* the predictor's objects as the program starts with them
PredictorIdle ==
  /\ ctx = CtxInit /\ stat = StatInit /\ pred = PredInit /\ coder = CoderInit

\* a StateMap, an APM, a hash element and a run model that nothing has
\* called yet
Sm1Idle == [sm |-> SmInit, cx |-> 0, bit |-> 0, first |-> 0, ps |-> <<>>]
Apm1Idle == [a |-> ApmInit, pr |-> 0, cx |-> 0, rate |-> 7, bit |-> 0, ps |-> <<>>]
ElemIdle ==
  [e |-> EZero, pre |-> EZero, got |-> EZero, ch |-> 0, row |-> -1,
   misses |-> 0, hits |-> 0, written |-> TRUE]
RunIdle == [t |-> <<>>, seen |-> {}]
UnitsIdle ==
  /\ sm1 = Sm1Idle /\ apm1 = Apm1Idle /\ elem = ElemIdle /\ run = RunIdle

---------------------------------------------------------------------------
(* The harness for the pure functions: an input is drawn, then squash and  *)
(* stretch are applied alternately; trail records every value.  dom0 says  *)
(* whether the input is a logit ("d") or a probability ("p").             *)

DMargin == 2      \* inputs of squash are drawn from -2047-DMargin..2047+DMargin
MaxCalls == 3     \* function applications per drawn input

DInputs == (-2047 - DMargin)..(2047 + DMargin)
PInputs == 0..4095

InitProbe ==
  /\ hist = HistInit
  /\ y = 0 /\ m = MixerInit /\ caller = CallerIdle
  /\ bh = BHInit /\ bhuse = BHUserInit
  /\ PredictorIdle /\ UnitsIdle
  /\ probe \in [dom0 : {"d"}, trail : {<<d>> : d \in DInputs}]
            \cup [dom0 : {"p"}, trail : {<<p>> : p \in PInputs}]

\* the domain of the last value of the trail: squash maps d to p, stretch p to d
ProbeDom ==
  IF (Len(probe.trail) % 2 = 1) = (probe.dom0 = "d") THEN "d" ELSE "p"

ProbeCur == probe.trail[Len(probe.trail)]

CallSquash ==
  /\ ProbeDom = "d"
  /\ Len(probe.trail) <= MaxCalls
  /\ probe' = [probe EXCEPT !.trail = Append(@, squash(ProbeCur))]
  /\ UNCHANGED <<hist, y, m, caller, bh, bhuse, ctx, stat, pred, coder, sm1, apm1, elem, run>>

CallStretch ==
  /\ ProbeDom = "p"
  /\ Len(probe.trail) <= MaxCalls
  /\ probe' = [probe EXCEPT !.trail = Append(@, stretch(ProbeCur))]
  /\ UNCHANGED <<hist, y, m, caller, bh, bhuse, ctx, stat, pred, coder, sm1, apm1, elem, run>>

NextSquash == CallSquash \/ CallStretch

SpecSquash == InitProbe /\ [][NextSquash]_vars

---------------------------------------------------------------------------
(* Claims about squash and stretch.                                       *)

\* the input was a logit in the domain of squash and squash, stretch were applied
StretchOfSquashDone ==
  /\ probe.dom0 = "d"
  /\ Len(probe.trail) >= 3
  /\ probe.trail[1] >= -2047 /\ probe.trail[1] <= 2047

\* the input was a probability and stretch, squash were applied
SquashOfStretchDone ==
  /\ probe.dom0 = "p"
  /\ Len(probe.trail) >= 3

\* C3 as stated: for every d in [-2047, 2047], |stretch(squash(d)) - d| <= 1.
C3_AsStated ==
  StretchOfSquashDone => Abs(probe.trail[3] - probe.trail[1]) <= 1

\* C3 amended: for every d in [-2047, 2047], stretch(squash(d)) lies in
\* [d - 127, d] (stretch returns the smallest logit with the same squash
\* value), and squashing it again gives squash(d) back.
C3_StretchOfSquash ==
  /\ StretchOfSquashDone =>
       /\ probe.trail[3] <= probe.trail[1]
       /\ probe.trail[3] >= probe.trail[1] - 127
  /\ (StretchOfSquashDone /\ Len(probe.trail) >= 4) =>
       probe.trail[4] = probe.trail[2]

\* the round trip of d = 2047 has been computed (it comes back as 1984)
C3_Witness ==
  /\ StretchOfSquashDone
  /\ probe.trail[1] = 2047
  /\ probe.trail[3] = 1984

\* the domain of value k of the trail
ProbeDomAt(k) == IF (k % 2 = 1) = (probe.dom0 = "d") THEN "d" ELSE "p"

\* C15: squash(d) is in 0..4095 for every d, and for d in -2047..2047 it
\* reads the entries (d >> 7) + 16 and the next of its table, which are
\* within 0..32; for every p in 0..4095 the constructor of Stretch has
\* assigned entry p, and stretch(p) is in -2047..2047.
C15_SquashStretchRanges ==
  \A k \in 1..(Len(probe.trail) - 1) :
    IF ProbeDomAt(k) = "d"
      THEN /\ probe.trail[k + 1] >= 0 /\ probe.trail[k + 1] <= 4095
           /\ (probe.trail[k] >= -2047 /\ probe.trail[k] <= 2047) =>
                /\ Shr(probe.trail[k], 7) + 16 >= 0
                /\ Shr(probe.trail[k], 7) + 16 + 1 <= 32
      ELSE /\ probe.trail[k] \in 0..4095
           /\ StretchAssigned[probe.trail[k]] = probe.trail[k + 1]
           /\ probe.trail[k + 1] >= -2047 /\ probe.trail[k + 1] <= 2047

\* an input above the domain was squashed to 4095, and that stretched to
\* 2047
C15_Witness ==
  /\ probe.dom0 = "d"
  /\ Len(probe.trail) >= 3
  /\ probe.trail[1] = 2049
  /\ probe.trail[2] = 4095
  /\ probe.trail[3] = 2047

\* C4 as stated: for every p in [0, 4095], |squash(stretch(p)) - p| <= 1.
C4_AsStated ==
  SquashOfStretchDone => Abs(probe.trail[3] - probe.trail[1]) <= 1

\* C4 amended: for every p in [0, 4095], |squash(stretch(p)) - p| <= 3, and
\* squash(stretch(p)) >= p except at p = 4095, which comes back as 4094.
C4_SquashOfStretch ==
  SquashOfStretchDone =>
    /\ Abs(probe.trail[3] - probe.trail[1]) <= 3
    /\ probe.trail[1] # 4095 => probe.trail[3] >= probe.trail[1]
    /\ probe.trail[1] = 4095 => probe.trail[3] = 4094

\* the round trip of p = 2988 has been computed (it comes back 3 higher)
C4_Witness ==
  /\ SquashOfStretchDone
  /\ probe.trail[1] = 2988
  /\ probe.trail[3] = 2991

---------------------------------------------------------------------------
(* ContextMap::mix1, the training of one bit history: the byte s that     *)
(* cp[i] points to becomes nex(s, y1), stepped back by 4 when that is      *)
(* >= 204 and the PRNG's output shifted left by (452 - ns) >> 3 is not     *)
(* zero.  The PRNG output is drawn from RndSamples.                        *)

RndSamples ==
  {<<0, 0>>, <<0, 1>>, <<0, 64>>, <<0, 128>>, <<32768, 0>>, <<65535, 65535>>}

InitHist ==
  /\ probe = ProbeIdle
  /\ y = 0 /\ m = MixerInit /\ caller = CallerIdle
  /\ bh = BHInit /\ bhuse = BHUserInit
  /\ PredictorIdle /\ UnitsIdle
  /\ hist = HistInit

TrainHist ==
  /\ \E y1 \in {0, 1}, r \in RndSamples :
       LET ns == TrainState(hist.s, y1, r)
       IN  hist' = [s |-> ns,
                    trained |-> TRUE,
                    rolled |-> ns # nex(hist.s, y1)]
  /\ UNCHANGED <<probe, y, m, caller, bh, bhuse, ctx, stat, pred, coder, sm1, apm1, elem, run>>

NextHist == TrainHist

SpecHist == InitHist /\ [][NextHist]_vars

\* C10: for every state in 0..255, nex(state, 0) and nex(state, 1) are in
\* [0, 252]; and a bit-history byte that starts at 0 is never driven into
\* the reserved states 253..255 by any sequence of bits, the step back by 4
\* included.
C10_NexRange ==
  /\ \A st \in 0..255 : \A sel \in {0, 1} : nex(st, sel) \in 0..252
  /\ hist.s \in 0..252

\* training has reached the top state 252 and stepped back from it to 248
C10_Witness == hist.trained /\ hist.s = 248 /\ hist.rolled

---------------------------------------------------------------------------
(* A Mixer driven as its header comment says: update(), add() up to N      *)
(* times, set() S times, p(), once per bit.  The Mixer is a small two-level*)
(* one, Mixer(MixN, MixS, MixS, w), every set() being set(0, 1).           *)

MixN == 2          \* inputs of the harness Mixer, and add() calls per bit
MixS == 2          \* weight sets selected per bit
MaxRounds == 2     \* bits (rounds of update, add, set, p)

MixerInputs == {-2047, 256, 2047}
MixerInitWeights == {-32767, 128, 32767}

InitMixer ==
  /\ probe = ProbeIdle /\ hist = HistInit
  /\ y = 0
  /\ m \in {MixerNew(MixN, MixS, MixS, w) : w \in MixerInitWeights}
  /\ caller = CallerIdle
  /\ bh = BHInit /\ bhuse = BHUserInit
  /\ PredictorIdle /\ UnitsIdle

CallUpdate ==
  /\ caller.pc = "update"
  /\ \E bit \in {0, 1} :
       /\ y' = bit
       /\ m' = [m EXCEPT !.mix = MixerUpdate(@, bit)]
  /\ caller' = [caller EXCEPT !.pc = "add"]
  /\ UNCHANGED <<probe, hist, bh, bhuse, ctx, stat, pred, coder, sm1, apm1, elem, run>>

CallAdd ==
  /\ caller.pc = "add"
  /\ m.mix.nx < MixN
  /\ \E x \in MixerInputs : m' = [m EXCEPT !.mix = MixerAdd(@, x)]
  /\ UNCHANGED <<probe, hist, y, caller, bh, bhuse, ctx, stat, pred, coder, sm1, apm1, elem, run>>

CallSet ==
  /\ caller.pc \in {"add", "set"}
  /\ m.mix.nx > 0
  /\ Len(m.mix.cxt) < m.mix.S
  /\ m' = [m EXCEPT !.mix = MixerSet(@, 0, 1)]
  /\ caller' = [caller EXCEPT !.pc = "set"]
  /\ UNCHANGED <<probe, hist, y, bh, bhuse, ctx, stat, pred, coder, sm1, apm1, elem, run>>

CallP ==
  /\ caller.pc = "set"
  /\ Len(m.mix.cxt) = m.mix.S
  /\ caller.round < MaxRounds
  /\ m' = MixerP(m, y)
  /\ caller' = [pc |-> "update", round |-> caller.round + 1]
  /\ UNCHANGED <<probe, hist, y, bh, bhuse, ctx, stat, pred, coder, sm1, apm1, elem, run>>

NextMixer == CallUpdate \/ CallAdd \/ CallSet \/ CallP

SpecMixer == InitMixer /\ [][NextMixer]_vars

\* the weights of the Mixer and of its child
AllWeights == Weights(m.mix) \cup (IF m.mp = <<>> THEN {} ELSE Weights(m.mp[1]))

\* update() has trained the selected sets on a prediction of p()
UpdateDone == caller.pc = "add" /\ caller.round > 0

\* C5 as stated: after Mixer::update() every weight satisfies |w| <= 32767.
C5_AsStated == UpdateDone => \A w \in AllWeights : Abs(w) <= 32767

\* C5 amended: after Mixer::update() every weight satisfies
\* -32768 <= w <= 32767 (train() saturates at both ends of the short range).
C5_WeightRange == UpdateDone => \A w \in AllWeights : w >= -32768 /\ w <= 32767

\* update() has driven a weight to the floor -32768
C5_Witness == UpdateDone /\ -32768 \in Weights(m.mix)

---------------------------------------------------------------------------
(* A BH<4> table and its user.  The user looks keys up and writes the two  *)
(* value bytes of the element it was handed, through the pointer of its    *)
(* last lookup (as RunContextMap::set does).  The keys <<h, 16>> share a   *)
(* bucket and have the checksums h ^ 16.  The plain run looks up a key not *)
(* used before (by symmetry the next h) and writes it with priority 1; the *)
(* user departs from it at most MaxDetours times, by looking up a key used *)
(* before, by a lookup while the element of the lookup before still has    *)
(* priority 0, or by writing priority 2.                                   *)
(* The user's record keeps, for the claims: the keys that have an element, *)
(* most recently looked up first (lru); the bytes written for each of them *)
(* (written); of the last lookup the index found (BH_M on a miss), the key *)
(* whose element was overwritten, the two keys looked up longest ago and   *)
(* the priorities written for them;                                        *)
(* and the buckets in which a lookup was made while the element of the     *)
(* lookup before it still had priority 0 (bare).                           *)

BHBucketKeys == 9     \* keys that share the bucket
MaxLookups == 9       \* lookups per run
MaxDetours == 2       \* departures from the plain run

BHKeys == {<<h, 16>> : h \in 1..BHBucketKeys}
BHPriorities == {1, 2}

InitBH ==
  /\ probe = ProbeIdle /\ hist = HistInit
  /\ y = 0 /\ m = MixerInit /\ caller = CallerIdle
  /\ bh = BHInit /\ bhuse = BHUserInit
  /\ PredictorIdle /\ UnitsIdle

\* the keys of seq that are not in the set gone
RECURSIVE Without(_, _)
Without(seq, gone) ==
  IF seq = <<>> THEN <<>>
  ELSE IF Head(seq) \in gone THEN Without(Tail(seq), gone)
  ELSE <<Head(seq)>> \o Without(Tail(seq), gone)

\* the keys of lru that lie in the bucket at base i
RECURSIVE InBucket(_, _)
InBucket(seq, i) ==
  IF seq = <<>> THEN <<>>
  ELSE IF BHIndex(Head(seq)) = i THEN <<Head(seq)>> \o InBucket(Tail(seq), i)
  ELSE InBucket(Tail(seq), i)

\* the keys with an element in the bucket at base i whose checksum is c
Owners(i, c) ==
  {InBucket(bhuse.lru, i)[x] : x \in {z \in 1..Len(InBucket(bhuse.lru, i)) :
                                        BHChk(InBucket(bhuse.lru, i)[z]) = c}}

\* the element the last lookup returned
BHReturned == Bucket(bh, bhuse.ptr)[1]

\* the departures from the plain run that a lookup of k now makes
BHDetours(k) ==
  (IF k[1] <= bhuse.fresh THEN 1 ELSE 0)
  + (IF bhuse.ptr >= 0 /\ BHReturned.v[1] = 0 THEN 1 ELSE 0)

\* the priority the user wrote for key k, 0 when it wrote none
WrittenPri(k) ==
  IF k \in DOMAIN bhuse.written THEN bhuse.written[k][1] ELSE 0

BHUserLookup ==
  /\ bhuse.n < MaxLookups
  /\ \E k \in BHKeys :
       /\ k[1] <= bhuse.fresh + 1
       /\ bhuse.detours + BHDetours(k) <= MaxDetours
       /\ LET i == BHIndex(k)
              b == Bucket(bh, i)
              j == BHScan(b, BHChk(k), 0)
              res == InBucket(bhuse.lru, i)
              \* the keys whose element is overwritten: on a miss, the one of
              \* the last two that is no longer in the bucket; else the one
              \* whose element of priority 0 is taken over
              lost == IF j = BH_M
                        THEN {x \in Owners(i, b[BH_M].chk)
                                      \cup Owners(i, b[BH_M - 1].chk) :
                                \A e \in 1..BH_M :
                                   BHLookupBucket(b, BHChk(k))[e].chk # BHChk(x)}
                      ELSE IF b[j + 1].chk # BHChk(k) THEN Owners(i, b[j + 1].chk)
                      ELSE {}
              gone == lost \ {k}
          IN  /\ bh' = BHLookup(bh, k)
              /\ bhuse' =
                   [ptr |-> i, key |-> k, op |-> "lookup", n |-> bhuse.n + 1,
                    fresh |-> IF k[1] > bhuse.fresh THEN k[1] ELSE bhuse.fresh,
                    detours |-> bhuse.detours + BHDetours(k),
                    lru |-> <<k>> \o Without(bhuse.lru, gone \cup {k}),
                    written |-> [x \in (DOMAIN bhuse.written) \ lost |->
                                   bhuse.written[x]],
                    found |-> j,
                    victim |-> IF j = BH_M THEN lost ELSE {},
                    oldest |-> IF Len(res) >= 2
                                 THEN <<res[Len(res)], res[Len(res) - 1]>>
                                 ELSE <<>>,
                    oldpri |-> IF Len(res) >= 2
                                 THEN <<WrittenPri(res[Len(res)]),
                                        WrittenPri(res[Len(res) - 1])>>
                                 ELSE <<>>,
                    bare |-> IF bhuse.ptr >= 0 /\ BHReturned.v[1] = 0
                               THEN bhuse.bare \cup {bhuse.ptr}
                               ELSE bhuse.bare]
  /\ UNCHANGED <<probe, hist, y, m, caller, ctx, stat, pred, coder, sm1, apm1, elem, run>>

\* the user writes the value bytes of the element its pointer is at
BHUserWrite ==
  /\ bhuse.op = "lookup"
  /\ \E pri \in BHPriorities :
       LET v == <<pri, 64 + bhuse.key[1]>>
       IN  /\ bhuse.detours + (pri - 1) <= MaxDetours
           /\ bh' = [bh EXCEPT ![bhuse.ptr][1].v = v]
           /\ bhuse' = [bhuse EXCEPT !.op = "write",
                                     !.detours = @ + (pri - 1),
                                     !.written = (bhuse.key :> v) @@ @]
  /\ UNCHANGED <<probe, hist, y, m, caller, ctx, stat, pred, coder, sm1, apm1, elem, run>>

NextBH == BHUserLookup \/ BHUserWrite

SpecBH == InitBH /\ [][NextBH]_vars

\* C8 as stated: once a key has been looked up and its caller has written
\* value bytes with a non-zero priority, every later lookup of the key
\* returns the element with those bytes, whatever other keys were looked up
\* in between, until the key's element is overwritten as the victim of a miss.
C8_AsStated ==
  (bhuse.op = "lookup" /\ bhuse.key \in DOMAIN bhuse.written) =>
     /\ BHReturned.chk = BHChk(bhuse.key)
     /\ BHReturned.v = bhuse.written[bhuse.key]

\* C8 (amended): the same, provided that every element a lookup in the key's
\* bucket returned was given a non-zero priority before the next lookup.
C8_SameElement ==
  (/\ bhuse.op = "lookup"
   /\ bhuse.key \in DOMAIN bhuse.written
   /\ bhuse.ptr \notin bhuse.bare) =>
     /\ BHReturned.chk = BHChk(bhuse.key)
     /\ BHReturned.v = bhuse.written[bhuse.key]

\* a key written earlier was found again five elements further back and
\* moved to the front
C8_Witness ==
  /\ bhuse.op = "lookup"
  /\ bhuse.key \in DOMAIN bhuse.written
  /\ bhuse.ptr \notin bhuse.bare
  /\ bhuse.found = 5

\* a lookup missed in a bucket of BH_M elements of non-zero priority
BHMissed ==
  /\ bhuse.op = "lookup"
  /\ bhuse.found = BH_M
  /\ bhuse.ptr \notin bhuse.bare
  /\ Len(bhuse.oldest) = 2

\* C9 as stated: the lookup of a further key in a full bucket overwrites the
\* element of the key looked up longest ago, whatever the priorities.
C9_AsStated == BHMissed => bhuse.victim = {bhuse.oldest[1]}

\* C9 (amended): the lookup of a further key in a full bucket overwrites the
\* element of the key looked up longest ago, unless the priority of that
\* element is greater than the priority of the element looked up second
\* longest ago: then it overwrites the latter.
C9_LowerOfLastTwo ==
  BHMissed =>
    bhuse.victim = {IF bhuse.oldpri[1] > bhuse.oldpri[2] THEN bhuse.oldest[2]
                    ELSE bhuse.oldest[1]}

\* a miss overwrote the element looked up second longest ago
C9_Witness ==
  /\ BHMissed
  /\ bhuse.oldpri = <<2, 1>>
  /\ bhuse.victim = {bhuse.oldest[2]}
  /\ BHReturned = [chk |-> BHChk(bhuse.key), v |-> <<0, 0>>]

---------------------------------------------------------------------------
(* The Predictor and its coder.  The coder codes bytes of CoderBytes, most *)
(* significant bit first: it sets y and calls update().  After whole bytes *)
(* it may construct a second Predictor, against which it replays the bits  *)
(* it coded with the first.  pos never exceeds MaxBytes.                   *)

MaxBytes == 5         \* bytes coded per run of the program
CoderBytes == {65, 255}

InitPredictor ==
  /\ probe = ProbeIdle /\ hist = HistInit
  /\ y = 0 /\ m = MixerInit /\ caller = CallerIdle
  /\ bh = BHInit /\ bhuse = BHUserInit
  /\ PredictorIdle /\ UnitsIdle

\* the byte of 8 bits from bits[k] on, most significant first
ByteAt(bits, k) ==
  bits[k] * 128 + bits[k + 1] * 64 + bits[k + 2] * 32 + bits[k + 3] * 16
  + bits[k + 4] * 8 + bits[k + 5] * 4 + bits[k + 6] * 2 + bits[k + 7]

\* the run of the Predictor in use
CurrentRun == coder.runs[Len(coder.runs)]

\* the bytes the coder may go on with
NextSyms ==
  IF ctx.bpos # 0 THEN {coder.sym}
  ELSE IF ctx.pos >= MaxBytes THEN {}
  ELSE IF Len(coder.runs) = 1 THEN CoderBytes
  ELSE IF Len(CurrentRun.bits) < Len(coder.runs[1].bits)
    THEN {ByteAt(coder.runs[1].bits, Len(CurrentRun.bits) + 1)}
  ELSE {}

\* the coder sets y and calls Predictor::update()
CallPredictorUpdate ==
  /\ \E b \in NextSyms :
     \E bit \in {(b \div (2 ^ (7 - ctx.bpos))) % 2} :
     \E w \in {PredictorUpdate(World(bit, ctx, m, stat, pred))} :
           /\ y' = bit
           /\ ctx' = CtxOf(w)
           /\ m' = w.m
           /\ stat' = StatOf(w)
           /\ pred' = [pr |-> w.pr]
           /\ coder' = [sym |-> b,
                        runs |-> [coder.runs EXCEPT ![Len(coder.runs)] =
                                    [bits |-> Append(@.bits, bit),
                                     ps |-> Append(@.ps, w.pr)]]]
  /\ UNCHANGED <<probe, hist, caller, bh, bhuse, sm1, apm1, elem, run>>

\* the coder constructs another Predictor: Predictor::Predictor()
NewPredictor ==
  /\ Len(coder.runs) = 1
  /\ ctx.bpos = 0
  /\ CurrentRun.bits # <<>>
  /\ pred' = PredInit
  /\ coder' = [coder EXCEPT !.runs = Append(@, [bits |-> <<>>, ps |-> <<>>])]
  /\ UNCHANGED <<probe, hist, y, m, caller, bh, bhuse, ctx, stat, sm1, apm1, elem, run>>

NextPredictor == CallPredictorUpdate \/ NewPredictor

SpecPredictor == InitPredictor /\ [][NextPredictor]_vars

\* the bits passed to update() since the program started, oldest first
RECURSIVE BitsOf(_, _)
BitsOf(runs, k) == IF k = 0 THEN <<>> ELSE BitsOf(runs, k - 1) \o runs[k].bits

AllBits == BitsOf(coder.runs, Len(coder.runs))

\* C1: p() is 2048 before the first call of update() on a Predictor, and
\* after every call of update() 0 <= p() < 4096.
C1_InRange ==
  /\ pred.pr \in 0..4095
  /\ CurrentRun.bits = <<>> => pred.pr = 2048
  /\ \A r \in 1..Len(coder.runs) :
       \A k \in 1..Len(coder.runs[r].ps) : coder.runs[r].ps[k] \in 0..4095

\* update() has been called for three whole bytes and p() is far from 2048
C1_Witness ==
  /\ Len(CurrentRun.bits) >= 24
  /\ pred.pr = CurrentRun.ps[Len(CurrentRun.ps)]
  /\ pred.pr > 3900

\* C2 as stated: two Predictors constructed one after the other in the same
\* program and given the same bits have the same p() after the same number
\* of calls of update().
C2_AsStated ==
  Len(coder.runs) = 2 =>
    \A k \in 1..Len(coder.runs[2].ps) : coder.runs[2].ps[k] = coder.runs[1].ps[k]

\* the value of the last n bits of bits, most significant first
RECURSIVE TailValue(_, _)
TailValue(bits, n) ==
  IF n = 0 THEN 0
  ELSE 2 * TailValue(SubSeq(bits, 1, Len(bits) - 1), n - 1) + bits[Len(bits)]

\* C6: after every update() 1 <= c0 <= 255 and 0 <= bpos <= 7, c0 is a
\* leading 1 bit followed by the last bpos bits passed to update(), and
\* c0 = 1 exactly when bpos = 0.
C6_BitContext ==
  /\ ctx.c0 \in 1..255
  /\ ctx.bpos \in 0..7
  /\ 2 ^ ctx.bpos <= ctx.c0
  /\ ctx.c0 < 2 ^ (ctx.bpos + 1)
  /\ ctx.c0 = 1 <=> ctx.bpos = 0
  /\ ctx.bpos = Len(AllBits) % 8
  /\ ctx.c0 = 2 ^ ctx.bpos + TailValue(AllBits, ctx.bpos)

\* seven bits of a byte other than the first are in c0, not all of them equal
C6_Witness ==
  /\ Len(AllBits) > 8
  /\ ctx.bpos = 7
  /\ ctx.c0 = 128 + 32

\* byte i of c4, byte 1 the least significant
C4Byte(c4, i) ==
  CASE i = 1 -> c4[2] % 256
    [] i = 2 -> c4[2] \div 256
    [] i = 3 -> c4[1] % 256
    [] i = 4 -> c4[1] \div 256

\* C7: after every update() pos is the number of whole bytes passed to
\* update(), and for i in 1..4 with i <= pos, buf(i) is byte i of c4 and is
\* the i'th most recent whole byte, the bits of a byte being assembled most
\* significant first.
C7_ByteHistory ==
  /\ ctx.pos = Len(AllBits) \div 8
  /\ \A i \in 1..4 :
       i <= ctx.pos =>
         /\ BufAt(ctx, i) = C4Byte(ctx.c4, i)
         /\ BufAt(ctx, i) = ByteAt(AllBits, 8 * (ctx.pos - i) + 1)

\* five bytes are complete, the four in c4 are not all the same and the
\* oldest of them has left c4
C7_Witness ==
  /\ ctx.pos = 5
  /\ ctx.bpos = 0
  /\ ctx.c4 = <<65 * 256 + 255, 255 * 256 + 65>>
  /\ ByteAt(AllBits, 1) = 255

---------------------------------------------------------------------------
(* The harness for one StateMap: a caller asks p(cx) again and again with   *)
(* the same cx while y stays what it was.  t[cx] starts at the             *)
(* constructor's value or at one of SmGrid + 1 values spread over the U16  *)
(* range or next to where training stops; first is the initial p.          *)

SmGrid == 15

SmStates == {0, 1, 255}

SmValues(cx) ==
  {(65535 * k) \div SmGrid : k \in 0..SmGrid}
    \cup {SmDefault(cx), 127, 128, 129, 65408, 65409, 65410}

InitStateMap ==
  /\ probe = ProbeIdle /\ hist = HistInit /\ m = MixerInit
  /\ caller = CallerIdle /\ bh = <<>> /\ bhuse = BHUserInit
  /\ PredictorIdle
  /\ apm1 = Apm1Idle /\ elem = ElemIdle /\ run = RunIdle
  /\ y \in {0, 1}
  /\ \E cx \in SmStates : \E v \in SmValues(cx) :
       sm1 = [sm |-> [cxt |-> 0, t |-> (cx :> v)], cx |-> cx, bit |-> y,
              first |-> Shr(v, 4), ps |-> <<>>]

\* p(cx); ps keeps the last two values returned
CallSmP ==
  /\ \E r \in {SmP(sm1.sm, sm1.cx, y)} :
       sm1' = [sm1 EXCEPT !.sm = r.sm,
                          !.ps = IF @ = <<>> THEN <<r.p>> ELSE <<@[Len(@)], r.p>>]
  /\ UNCHANGED <<probe, hist, y, m, caller, bh, bhuse, ctx, stat, pred, coder,
                 apm1, elem, run>>

NextStateMap == CallSmP

SpecStateMap == InitStateMap /\ [][NextStateMap]_vars

\* the caller does not stop asking
SpecStateMapFair == SpecStateMap /\ WF_vars(CallSmP)

SmLast == sm1.ps[Len(sm1.ps)]

\* the last value returned is where training with this bit leaves off
SmSettled ==
  /\ sm1.ps # <<>>
  /\ IF sm1.bit = 1 THEN SmLast >= 4095 - 7 ELSE SmLast <= 8

\* C11: asked p(cx) again and again with the same cx, a StateMap returns
\* values that never fall while y is constantly 1 and never rise while y is
\* constantly 0, and from every initial t[cx] they come to stay within 8 of
\* 4095, respectively of 0.
C11_StateMapConverges ==
  /\ [][sm1.ps # <<>> =>
          IF sm1.bit = 1 THEN sm1'.ps[Len(sm1'.ps)] >= SmLast
                         ELSE sm1'.ps[Len(sm1'.ps)] <= SmLast]_vars
  /\ <>[]SmSettled

\* from below one half, 1-bits have taken p(cx) up to where it stays
C11_Witness ==
  /\ sm1.bit = 1
  /\ sm1.first < 2048
  /\ Len(sm1.ps) = 2
  /\ sm1.ps[1] = 4087 /\ sm1.ps[2] = 4088

---------------------------------------------------------------------------
(* The harness for one APM: a caller asks p(pr, cx, 7) again and again     *)
(* with the same pr and cx while y stays what it was.  The two entries pr  *)
(* falls between start at the constructor's values or at any two of        *)
(* ApmGrid + 1 values spread over the U16 range.                           *)

ApmGrid == 3

ApmInputs == {0, 1000, 4095}

ApmContexts == {0, 1}

ApmValues == {(65535 * k) \div ApmGrid : k \in 0..ApmGrid}

\* the index p(pr, cx) reads at
ApmIndex(pr, cx) == Shr(stretch(pr) + 2048, 7) + cx * 33

InitApm ==
  /\ probe = ProbeIdle /\ hist = HistInit /\ m = MixerInit
  /\ caller = CallerIdle /\ bh = <<>> /\ bhuse = BHUserInit
  /\ PredictorIdle
  /\ sm1 = Sm1Idle /\ elem = ElemIdle /\ run = RunIdle
  /\ y \in {0, 1}
  /\ \E pr \in ApmInputs : \E cx \in ApmContexts :
       \E t \in {<<>>} \cup
                {(ApmIndex(pr, cx) :> u) @@ ((ApmIndex(pr, cx) + 1) :> v) :
                   u \in ApmValues, v \in ApmValues} :
         apm1 = [a |-> [ApmInit EXCEPT !.t = t], pr |-> pr, cx |-> cx,
                 rate |-> 7, bit |-> y, ps |-> <<>>]

\* p(pr, cx, rate); ps keeps the first value returned and the last two
CallApmP ==
  /\ \E r \in {ApmP(apm1.a, apm1.pr, apm1.cx, apm1.rate, y)} :
       apm1' = [apm1 EXCEPT !.a = r.a,
                            !.ps = IF @ = <<>> THEN <<r.p, r.p, r.p>>
                                   ELSE <<@[1], @[3], r.p>>]
  /\ UNCHANGED <<probe, hist, y, m, caller, bh, bhuse, ctx, stat, pred, coder,
                 sm1, elem, run>>

NextApm == CallApmP

SpecApm == InitApm /\ [][NextApm]_vars

\* the caller does not stop asking
SpecApmFair == SpecApm /\ WF_vars(CallApmP)

\* the last value returned is the end of the 12 bit range on the side of y
ApmSettled ==
  /\ apm1.ps # <<>>
  /\ apm1.ps[3] = apm1.bit * 4095

\* C12: asked p(pr, cx, 7) again and again with the same pr and cx while y
\* is constant, an APM comes to return 4095 for ever if y = 1 and 0 for
\* ever if y = 0, whatever the table held at first.
C12_ApmConverges == <>[]ApmSettled

\* 1-bits have taken a p() that began below one half up to 4095
C12_Witness ==
  /\ apm1.bit = 1
  /\ apm1.ps # <<>>
  /\ apm1.ps[1] < 2048
  /\ apm1.ps[2] = 4094 /\ apm1.ps[3] = 4095

---------------------------------------------------------------------------
(* The calls of m.set of the last contextModel2().                         *)

\* the calls of set() since the last update() of a Mixer, in order
SetCalls(mx) == SelectSeq(mx.calls, LAMBDA c : c[1] = "set")

\* base before call i + 1: the sum of the ranges of the first i calls
RECURSIVE RangeSum(_, _)
RangeSum(sets, i) == IF i = 0 THEN 0 ELSE RangeSum(sets, i - 1) + sets[i][3]

---------------------------------------------------------------------------
(* The calls of APM::p of the last Predictor::update().                    *)

\* static APM a(256), a1(0x10000), ..., a6(0x10000): N of the k'th
ApmN(k) == IF k = 1 THEN 256 ELSE 65536

\* the APMs that have been called
ApmCalled == {k \in 1..7 : stat.apm[k].arg # <<>>}

\* C14: every call p(pr, cx, rate) that Predictor::update() makes of an
\* APM has 0 <= pr < 4096, 0 <= cx < N (256 for a, 65536 for a1..a6) and
\* 0 < rate < 32, and the index it computes and the next lie within the 33
\* entries of cx, 33 * cx .. 33 * cx + 32.
C14_ApmCallsInRange ==
  \A k \in ApmCalled :
    LET pr == stat.apm[k].arg[1]
        cx == stat.apm[k].arg[2]
        rate == stat.apm[k].arg[3]
        index == stat.apm[k].index
    IN  /\ 0 <= pr /\ pr < 4096
        /\ 0 <= cx /\ cx < ApmN(k)
        /\ 0 < rate /\ rate < 32
        /\ 33 * cx <= index /\ index + 1 <= 33 * cx + 32

\* a1 was called with the last context of its table while a was called
\* with the last of its own
C14_Witness ==
  /\ ApmCalled = 1..7
  /\ stat.apm[1].arg[2] = 255
  /\ stat.apm[2].arg[2] = 65535
  /\ stat.apm[2].index >= 33 * 65535

---------------------------------------------------------------------------
(* A Mixer without child, Mixer(MixN, DirectM, 1, w), driven as its header *)
(* comment says; its one set() per bit selects any of the DirectM weight   *)
(* sets.                                                                   *)

DirectM == 2       \* weight sets of the Mixer without child

InitDirect ==
  /\ probe = ProbeIdle /\ hist = HistInit
  /\ y = 0
  /\ m \in {MixerNew(MixN, DirectM, 1, w) : w \in MixerInitWeights}
  /\ caller = CallerIdle
  /\ bh = BHInit /\ bhuse = BHUserInit
  /\ PredictorIdle /\ UnitsIdle

\* m.set(cx, DirectM)
CallSetDirect ==
  /\ caller.pc = "add"
  /\ m.mix.nx > 0
  /\ Len(m.mix.cxt) < m.mix.S
  /\ \E cx \in 0..(DirectM - 1) : m' = [m EXCEPT !.mix = MixerSet(@, cx, DirectM)]
  /\ caller' = [caller EXCEPT !.pc = "set"]
  /\ UNCHANGED <<probe, hist, y, bh, bhuse, ctx, stat, pred, coder, sm1, apm1, elem, run>>

NextDirect == CallUpdate \/ CallAdd \/ CallSetDirect \/ CallP

SpecDirect == InitDirect /\ [][NextDirect]_vars

\* p() has returned and update() has not been called since
PDone == caller.pc = "update" /\ caller.round > 0

\* C16 as stated: the p() of a Mixer with S = 1 and M > 1 sets pr[0] to
\* squash(dot_product(tx, wx[cxt[0] * N ..], nx) >> 8), the weight set being
\* the one the preceding set() selected and the following update() trains.
C16_AsStated ==
  (PDone /\ m.mp = <<>>) =>
    m.mix.pr[1] = squash(Shr(dot_product(m.mix, m.mix.cxt[1], m.mix.nx), 8))

---------------------------------------------------------------------------
(* The calls of the methods of m, and of its child, of the last            *)
(* contextModel2().                                                        *)

\* the calls of one method in the record of a Mixer
CallsOf(mx, name) == SelectSeq(mx.calls, LAMBDA c : c[1] = name)

\* the record is empty (the Mixer was never used) or one update(), then
\* add()s, then set()s, then one p(), and nx, ncxt and base are what the
\* add()s and set()s after that update() make them
InProtocol(mx) ==
  \/ mx.calls = <<>>
  \/ LET n == Len(mx.calls)
         na == Len(CallsOf(mx, "add"))
         ns == Len(CallsOf(mx, "set"))
     IN  /\ n = na + ns + 2
         /\ mx.calls[1] = <<"update">>
         /\ \A i \in 2..(na + 1) : mx.calls[i] = <<"add">>
         /\ \A i \in (na + 2)..(n - 1) : mx.calls[i][1] = "set"
         /\ mx.calls[n] = <<"p">>
         /\ mx.nx = RoundUp8(na)
         /\ Len(mx.cxt) = ns
         /\ mx.base = RangeSum(SetCalls(mx), ns)

\* what update() with the bit bit makes of the weights of mx: the sets its
\* last p() used are trained on tx[0..nx) and the pr[i] of that p(), the
\* others are as they were
Trained(mx, bit, wx) ==
  \A row \in DOMAIN wx :
    IF \E i \in 1..Len(mx.cxt) : mx.cxt[i] = row
      THEN LET i == CHOOSE i \in 1..Len(mx.cxt) : mx.cxt[i] = row
           IN  wx[row] = train(mx, row, mx.nx, (bit * 4096 - mx.pr[i]) * 7)
      ELSE row \in DOMAIN mx.wx /\ wx[row] = mx.wx[row]

\* C17: in every contextModel2() m.update() comes first, then the add()s,
\* then the set()s, then p(), each of update() and p() once; update() trains
\* the sets selected for the previous bit, and no other, on the inputs and
\* the pr[i] of the previous p() with the new y and leaves nx = base = ncxt
\* = 0; the child is updated inside p() in the same way before it is given
\* its inputs, one per selected set.
C17_MixerProtocol ==
  /\ [](/\ InProtocol(m.mix)
        /\ m.mp # <<>> =>
             /\ InProtocol(m.mp[1])
             /\ Len(CallsOf(m.mp[1], "add"))
                  = IF m.mix.calls = <<>> THEN 0 ELSE Len(m.mix.cxt))
  /\ [][m' # m =>
          /\ Trained(m.mix, y', m'.mix.wx)
          /\ Trained(m.mp[1], y', m'.mp[1].wx)]_vars

\* the second contextModel2() or a later one has trained the last of the
\* six sets selected before, and the child
C17_Witness ==
  /\ Len(CallsOf(m.mix, "set")) = 6
  /\ Len(CallsOf(m.mix, "add")) > 8
  /\ \E row \in DOMAIN m.mix.wx : row >= 1288
  /\ m.mp # <<>> /\ 0 \in DOMAIN m.mp[1].wx
  /\ Len(CallsOf(m.mp[1], "add")) = 6

---------------------------------------------------------------------------
(* The bit-history pointers of cm after a Predictor::update().             *)

\* the contexts mix1 has worked on in the last call: none in the first byte
\* of the process, when no context is set yet, and all C from then on
CmUsed == IF ctx.pos = 0 THEN {} ELSE 1..stat.cm.C

\* p points into a row of a hash element of cm, at column 0..6
LivePointer(p) ==
  /\ p # Null
  /\ p[1] >= 0 /\ p[1] < stat.cm.size
  /\ p[2] \in 0..6
  /\ p[3] \in 0..6

\* cp[i] is where the claim puts it at this bpos
Advanced(i) ==
  LET cp == stat.cm.cp[i]
      cp0 == stat.cm.cp0[i]
  IN  /\ ctx.bpos \in {1, 3, 6} => cp = PtrAdd(cp0, 1 + (ctx.c0 % 2))
      /\ ctx.bpos \in {4, 7} => cp = PtrAdd(cp0, 3 + (ctx.c0 % 4))
      /\ ctx.bpos \in {2, 5, 0} =>
           /\ cp = cp0
           /\ cp = <<CmIndex(stat.cm, stat.cm.cxt[i], ctx.c0), cp[2], 0>>
      /\ LivePointer(cp)

\* C18 as stated: after mix1, for every context i, cp[i] is cp0[i] + 1 +
\* (c0 & 1) at bpos 1, 3, 6, cp0[i] + 3 + (c0 & 3) at bpos 4, 7 and the
\* element looked up in the hash table, like cp0[i], at bpos 2, 5, 0; so it
\* is always a live pointer at offset 0..6 of a row.
C18_AsStated == \A i \in CmUsed : Advanced(i)

\* C18 amended: after mix1, for every context i, cp[i] is null if bpos > 1
\* and the run byte runp[i][0] of the context is 0 (the context was not seen
\* before this byte), and only then; otherwise it is cp0[i] + 1 + (c0 & 1)
\* at bpos 1, 3, 6, cp0[i] + 3 + (c0 & 3) at bpos 4, 7 and the element looked
\* up in the hash table, like cp0[i], at bpos 2, 5, 0; so it is null or a
\* live pointer at offset 0..6 of a row.
C18_PointerAdvance ==
  \A i \in CmUsed :
    IF ctx.bpos > 1 /\ Peek(stat.cm.t, stat.cm.runp[i]) = 0
      THEN stat.cm.cp[i] = Null
      ELSE Advanced(i)

\* at bpos 4 one context is followed at offset 3..6 of its row and another,
\* not seen before this byte, is not followed
C18_Witness ==
  /\ ctx.bpos = 4
  /\ \E i \in CmUsed : stat.cm.cp[i] # Null /\ stat.cm.cp[i][3] >= 3
  /\ \E i \in CmUsed : stat.cm.cp[i] = Null

---------------------------------------------------------------------------
(* The harness for one hash element of a ContextMap: its user looks up a   *)
(* checksum, then writes the first byte of the row returned (the priority, *)
(* a bit-history state that is not 0) and the last, and so on.  A checksum *)
(* is one the element holds or a new one; as get() only compares           *)
(* checksums, the new one is always the least not used so far.             *)

ElemMisses == 8    \* lookups of a checksum the element does not hold
ElemHits == 1      \* lookups of a checksum the element holds

ElemPriorities == {1, 2}

InitElem ==
  /\ probe = ProbeIdle /\ hist = HistInit /\ y = 0 /\ m = MixerInit
  /\ caller = CallerIdle /\ bh = <<>> /\ bhuse = BHUserInit
  /\ PredictorIdle
  /\ sm1 = Sm1Idle /\ apm1 = Apm1Idle /\ run = RunIdle
  /\ elem = ElemIdle

\* the checksums of the element
Held(e) == {e.chk[k] : k \in 1..7}

\* get(ch)
CallEGet ==
  /\ elem.written
  /\ \E ch \in Held(elem.e) \cup {elem.misses + 1} :
       /\ IF ch \in Held(elem.e) THEN elem.hits < ElemHits
                                 ELSE elem.misses < ElemMisses
       /\ \E r \in {EGet(elem.e, ch)} :
            elem' = [e |-> r.e, pre |-> elem.e, got |-> r.e, ch |-> ch,
                     row |-> r.row,
                     misses |-> IF ch \in Held(elem.e) THEN elem.misses
                                ELSE elem.misses + 1,
                     hits |-> IF ch \in Held(elem.e) THEN elem.hits + 1
                              ELSE elem.hits,
                     written |-> FALSE]
  /\ UNCHANGED <<probe, hist, y, m, caller, bh, bhuse, ctx, stat, pred, coder,
                 sm1, apm1, run>>

\* the user writes the row returned: p[0] = v, p[6] = v
CallEWrite ==
  /\ ~elem.written
  /\ \E v \in ElemPriorities :
       elem' = [elem EXCEPT !.e.bh[elem.row + 1][1] = v,
                            !.e.bh[elem.row + 1][7] = v,
                            !.written = TRUE]
  /\ UNCHANGED <<probe, hist, y, m, caller, bh, bhuse, ctx, stat, pred, coder,
                 sm1, apm1, run>>

NextElem == CallEGet \/ CallEWrite

SpecElem == InitElem /\ [][NextElem]_vars

\* the last get() found its checksum in no row of the element
EMissed == elem.row >= 0 /\ elem.ch \notin Held(elem.pre)

\* C19: when get(ch) finds ch in no row, the row it replaces is neither of
\* the two recorded in last and has the least priority bh[i][0] of the
\* others; its 7 bytes are zeroed and its checksum becomes ch, the other
\* rows are unchanged, and last becomes 0xf0 | row: a queue of that row
\* alone.
C19_Replacement ==
  EMissed =>
    LET lo == elem.pre.last % 16
        hi == elem.pre.last \div 16
        bi == elem.row
    IN  /\ bi \in 0..6
        /\ bi # lo /\ bi # hi
        /\ \A k \in 0..6 :
             (k # lo /\ k # hi) => elem.pre.bh[bi + 1][1] <= elem.pre.bh[k + 1][1]
        /\ elem.got.bh[bi + 1] = [c \in 1..7 |-> 0]
        /\ elem.got.chk[bi + 1] = elem.ch
        /\ \A k \in 0..6 :
             k # bi => /\ elem.got.chk[k + 1] = elem.pre.chk[k + 1]
                       /\ elem.got.bh[k + 1] = elem.pre.bh[k + 1]
        /\ elem.got.last = 240 + bi
        /\ elem.got.last % 16 = bi /\ elem.got.last \div 16 = 15

\* every row was in use, two rows were recorded in last, and the row
\* replaced was not the first of the others: that one had a higher priority
C19_Witness ==
  /\ EMissed
  /\ \A k \in 1..7 : elem.pre.bh[k][1] > 0
  /\ elem.pre.last \div 16 \in 0..6
  /\ \E k \in 0..6 :
       /\ k < elem.row
       /\ k # elem.pre.last % 16 /\ k # elem.pre.last \div 16
       /\ elem.pre.bh[k + 1][1] > elem.pre.bh[elem.row + 1][1]

---------------------------------------------------------------------------
(* The harness for the run model of one byte-boundary row of a ContextMap: *)
(* the row is new (all zero) and mix1 updates its run count with every     *)
(* byte that follows the context; seen is the set of those bytes.  The row *)
(* becomes new again when get() replaces it.                               *)

RunBytes == {65, 255}

\* runp[i] = cp0[i] + 3
RunPtr == <<0, 0, 3>>

InitRun ==
  /\ probe = ProbeIdle /\ hist = HistInit /\ y = 0 /\ m = MixerInit
  /\ caller = CallerIdle /\ bh = <<>> /\ bhuse = BHUserInit
  /\ PredictorIdle
  /\ sm1 = Sm1Idle /\ apm1 = Apm1Idle /\ elem = ElemIdle
  /\ run = RunIdle

\* mix1 at bpos 0: update the run count of the context with c1
CallRunUpdate ==
  /\ \E c1 \in RunBytes :
       run' = [t |-> CmRun(run.t, RunPtr, c1), seen |-> run.seen \cup {c1}]
  /\ UNCHANGED <<probe, hist, y, m, caller, bh, bhuse, ctx, stat, pred, coder,
                 sm1, apm1, elem>>

\* get() replaces the row: memset(&bh[bi][0], 0, 7)
CallRunReplace ==
  /\ run.seen # {}
  /\ run' = RunIdle
  /\ UNCHANGED <<probe, hist, y, m, caller, bh, bhuse, ctx, stat, pred, coder,
                 sm1, apm1, elem>>

NextRun == CallRunUpdate \/ CallRunReplace

SpecRun == InitRun /\ [][NextRun]_vars

\* the run byte count * 2 + d and the stored byte b1
RunByte == Peek(run.t, RunPtr)
RunB1 == Peek(run.t, PtrAdd(RunPtr, 1))

\* C20 as stated: in a row that has been given a byte since it was created,
\* d = 0 only if no byte other than the stored b1 was seen in the context,
\* and then count is in 1..127; d = 1 whenever another byte was seen.
C20_AsStated ==
  run.seen # {} =>
    /\ RunByte % 2 = 0 =>
         /\ run.seen \subseteq {RunB1}
         /\ RunByte \div 2 >= 1 /\ RunByte \div 2 <= 127
    /\ run.seen \ {RunB1} # {} => RunByte % 2 = 1


---------------------------------------------------------------------------
(* The deferred update of the bit histories for bits 2-7: what the last    *)
(* mix1 left of the marker cp0[i][3] = 2 that it found.                    *)

\* the marker of context i as mix1 returned
MarkerNow(i) == Peek(stat.cm.t, PtrAdd(stat.cm.cp0[i + 1], 3))

\* C21 as stated: for every context whose marker mix1 found at 2 at a byte
\* boundary, cp0[i][3] is not 2 when that mix1 call has returned.
C21_AsStated == \A r \in stat.cm.pend : MarkerNow(r.i) # 2

\* C21: when mix1 at a byte boundary finds cp0[i][3] = 2, the rebuild of the
\* bit histories for bits 2..7 clears cp0[i][6] and leaves the marker: when
\* the rebuild is done cp0[i][3] is still 2 and cp0[i][6] is 0.
C21_RebuildKeepsMarker ==
  \A r \in stat.cm.pend : r.marker = 2 /\ r.b6 = 0

\* a context seen for the second time after another one: the rebuild was
\* made, and the marker is still 2 as mix1 returns
C21_Witness ==
  \E r \in stat.cm.pend : ~r.same /\ MarkerNow(r.i) = 2 /\ r.b6 = 0


---------------------------------------------------------------------------
(* The replacement on a miss in a full bucket, element by element.         *)

\* the bucket b2 is b after element v (counted from 1) was replaced by a
\* zeroed element of checksum chk put at the front
Replaced(b, b2, v, chk) ==
  /\ b2[1] = [chk |-> chk, v |-> [x \in 1..(BH_B - 2) |-> 0]]
  /\ \A k \in 2..v : b2[k] = b[k - 1]
  /\ \A k \in (v + 1)..BH_M : b2[k] = b[k]

---------------------------------------------------------------------------
(* The step back of the training, counted over the values of rnd().  The   *)
(* bit history is trained from 0 on as in mix1; of the last step, hist     *)
(* keeps the state it started from and the bit.  The values of rnd() are   *)
(* counted in windows of 2^RollBits consecutive values.                    *)

RollBits == 7     \* a window is 2^RollBits values of rnd()

\* the upper halves of the windows
RollHigh == {0, 1, 32768, 65535}

InitRoll ==
  /\ probe = ProbeIdle
  /\ y = 0 /\ m = MixerInit /\ caller = CallerIdle
  /\ bh = BHInit /\ bhuse = BHUserInit
  /\ PredictorIdle /\ UnitsIdle
  /\ hist = [s |-> 0, trained |-> FALSE, rolled |-> FALSE, from |-> 0, y1 |-> 0]

\* int ns = nex(*cp[i], y1); if (ns >= 204 && rnd() << (452 - ns >> 3))
\* ns -= 4; *cp[i] = ns
TrainRoll ==
  /\ \E y1 \in {0, 1}, r \in RndSamples :
       LET ns == TrainState(hist.s, y1, r)
       IN  hist' = [s |-> ns, trained |-> TRUE,
                    rolled |-> ns # nex(hist.s, y1),
                    from |-> hist.s, y1 |-> y1]
  /\ UNCHANGED <<probe, y, m, caller, bh, bhuse, ctx, stat, pred, coder, sm1, apm1, elem, run>>

NextRoll == TrainRoll

SpecRoll == InitRoll /\ [][NextRoll]_vars

\* the number of values <<hi, 0>> .. <<hi, 2^RollBits - 1>> of rnd() for
\* which the last step would have stepped back
RollCount(hi) ==
  Cardinality({lo \in 0..(2 ^ RollBits - 1) :
                 TrainState(hist.from, hist.y1, <<hi, lo>>)
                   = nex(hist.from, hist.y1) - 4})

---------------------------------------------------------------------------
(* The framing of contextModel2: filetype and size over a stream of bytes  *)
(* of FrameBytes, coded bit by bit.  Each call of Predictor::update()      *)
(* updates the global context and then parses filetype and size; nothing   *)
(* else in update() writes the two.                                        *)

FrameBytes == {0, 1, 2}
MaxFrameBytes == 8     \* bytes per stream

InitFraming ==
  /\ probe = ProbeIdle /\ hist = HistInit
  /\ y = 0 /\ m = MixerInit /\ caller = CallerIdle
  /\ bh = BHInit /\ bhuse = BHUserInit
  /\ PredictorIdle /\ UnitsIdle

\* Predictor::update() with y = bit, up to the parsing of filetype and size
CallFramingUpdate ==
  /\ ctx.pos < MaxFrameBytes
  /\ \E bit \in {0, 1} :
       /\ \E b \in FrameBytes : Shr(b + 256, 7 - ctx.bpos) = FoldBit(ctx.c0, bit)
       /\ LET w == Framing(UpdateContext(
                     [y |-> bit, c0 |-> ctx.c0, c4 |-> ctx.c4, bpos |-> ctx.bpos,
                      pos |-> ctx.pos, buf |-> ctx.buf,
                      filetype |-> stat.filetype, size |-> stat.size]))
           IN  /\ y' = bit
               /\ ctx' = CtxOf(w)
               /\ stat' = [stat EXCEPT !.filetype = w.filetype, !.size = w.size]
  /\ UNCHANGED <<probe, hist, m, caller, bh, bhuse, pred, coder, sm1, apm1, elem, run>>

NextFraming == CallFramingUpdate

SpecFraming == InitFraming /\ [][NextFraming]_vars

\* the four bytes after the tag at s, the first most significant
FrameSize(b, s) ==
  ((b[s + 1] * 256 + b[s + 2]) * 256 + b[s + 3]) * 256 + b[s + 4]

\* the stream b read as frames from the tag at s on: the tag of the frame
\* the last byte is in, the bytes the frame still lacks (-k after the tag
\* and k - 1 bytes of the size), and whether no tag so far was EXE
RECURSIVE FrameOf(_, _, _)
FrameOf(b, s, plain) ==
  IF Len(b) < s THEN [filetype |-> 0, size |-> 0, plain |-> plain]
  ELSE IF Len(b) < s + 4
    THEN [filetype |-> b[s], size |-> -(Len(b) - s + 1), plain |-> plain /\ b[s] # EXE]
  ELSE IF Len(b) <= s + 4 + FrameSize(b, s)
    THEN [filetype |-> b[s], size |-> FrameSize(b, s) - (Len(b) - (s + 4)),
          plain |-> plain /\ b[s] # EXE]
  ELSE FrameOf(b, s + 5 + FrameSize(b, s), plain /\ b[s] # EXE)

\* C24: in a stream of frames, each a filetype tag, a size n of four bytes
\* with the first most significant and n further bytes, none of the tags
\* EXE, filetype is the tag of the frame that the last completed byte is in
\* and size is the number of bytes that frame still lacks: the first byte is
\* a tag, the byte after the n bytes of a frame is the next tag, and no other
\* byte changes filetype.
C24_Framing ==
  LET f == FrameOf(ctx.buf, 1, TRUE)
  IN  f.plain => stat.filetype = f.filetype /\ stat.size = f.size

\* after a frame of tag 1 and size 1, whose one byte is 2, the byte 0 was
\* read as the next tag
C24_Witness ==
  /\ ctx.buf = <<1, 0, 0, 0, 1, 2, 0>>
  /\ ctx.bpos = 0
  /\ stat.filetype = 0 /\ stat.size = -1


---------------------------------------------------------------------------
(* The inputs of the Mixer in one contextModel2(): the calls of m.add()    *)
(* between m.update() and m.p().                                           *)

\* the number of m.add() calls of the last contextModel2()
Inputs == Len(CallsOf(m.mix, "add"))

\* C25 as stated: in every contextModel2(), the first byte included, the
\* Mixer gets 58 inputs, the bias first, as mix1 works on all C = 9
\* contexts; cn is at most C and is 0 only after the bit at bpos = 7.
C25_AsStated ==
  CurrentRun.bits # <<>> =>
    /\ Inputs = 1 + 9 * 6 + 3
    /\ TxAt(m.mix, 0) = 256
    /\ stat.cm.cn <= stat.cm.C
    /\ stat.cm.cn = 0 <=> ctx.bpos = 7

\* C25 (amended): in every contextModel2() after the first byte of the
\* process has completed the Mixer gets 58 inputs, the bias first, and cn
\* is C = 9, or 0 after the bit at bpos = 7; in the seven calls before that
\* no context is set, cn is 0 and the Mixer gets 4 inputs, the bias and the
\* three of the RunContextMaps.
C25_InputsPerBit ==
  (ctx.pos > 0 \/ ctx.bpos > 0) =>
    /\ TxAt(m.mix, 0) = 256
    /\ IF ctx.pos = 0
         THEN Inputs = 1 + 3 /\ stat.cm.cn = 0
         ELSE /\ Inputs = 1 + 9 * 6 + 3
              /\ stat.cm.cn = IF ctx.bpos = 7 THEN 0 ELSE stat.cm.C

\* the first bit of the third byte: 58 inputs once more, and cn is 9
C25_Witness ==
  /\ ctx.pos = 2 /\ ctx.bpos = 1
  /\ Inputs = 58
  /\ stat.cm.cn = 9
  /\ Len(m.mix.tx) = 64


---------------------------------------------------------------------------
(* Contexts that share a hash element.  The coder codes CollideStream, at  *)
(* the end of which the contexts of order 1, 8 and 14 (slots 1, 7 and 8 of *)
(* cm) fall into the same element of t with three checksums, and then      *)
(* CollideTail bytes of CoderBytes.                                        *)

CollideStream == <<0, 16, 230, 50, 9, 117, 42, 65, 255, 65, 255, 66>>
CollideTail == 1     \* bytes coded after CollideStream

InitCollide ==
  /\ probe = ProbeIdle /\ hist = HistInit
  /\ y = 0 /\ m = MixerInit /\ caller = CallerIdle
  /\ bh = BHInit /\ bhuse = BHUserInit
  /\ PredictorIdle /\ UnitsIdle

\* the bytes the coder may code next
CollideSyms ==
  IF ctx.pos < Len(CollideStream) THEN {CollideStream[ctx.pos + 1]}
  ELSE IF ctx.bpos = 0 THEN CoderBytes
  ELSE {coder.sym}

\* Predictor::update() with y the next bit of the stream
CallCollideUpdate ==
  /\ ctx.pos < Len(CollideStream) + CollideTail
  /\ \E b \in CollideSyms :
     \E bit \in {(b \div (2 ^ (7 - ctx.bpos))) % 2} :
     \E w \in {PredictorUpdate(World(bit, ctx, m, stat, pred))} :
           /\ y' = bit
           /\ ctx' = CtxOf(w)
           /\ m' = w.m
           /\ stat' = StatOf(w)
           /\ pred' = [pr |-> w.pr]
           /\ coder' = [sym |-> b,
                        runs |-> [coder.runs EXCEPT ![Len(coder.runs)] =
                                    [bits |-> Append(@.bits, bit),
                                     ps |-> Append(@.ps, w.pr)]]]
  /\ UNCHANGED <<probe, hist, caller, bh, bhuse, sm1, apm1, elem, run>>

NextCollide == CallCollideUpdate

SpecCollide == InitCollide /\ [][NextCollide]_vars

\* C26 as stated: whenever mix1 trains through cp[i], the row that cp[i]
\* points into has the checksum under which context i looked it up.
C26_AsStated ==
  \A r \in stat.cm.trained : r.asked => r.keyed

\* C26 (amended): whenever mix1 trains through cp[i], the row that cp[i]
\* points into has the checksum under which context i looked it up, unless
\* E::get was called on the same hash element twice or more since that
\* lookup, for other contexts or by the rebuild of bits 2..7.
C26_KeyedUnlessTwoLookups ==
  \A r \in stat.cm.trained : (r.asked /\ r.since <= 1) => r.keyed

\* mix1 trained through the pointer of slot 7, on whose element E::get was
\* called once since, for slot 8: the row still has slot 7's checksum
C26_Witness ==
  \E r \in stat.cm.trained : r.i = 7 /\ r.asked /\ r.since = 1 /\ r.keyed


---------------------------------------------------------------------------
(* E::get(ch) as its caller sees it.                                       *)

\* C27: after every get(ch), last & 15 is one of the rows 0..6, the
\* checksum of that row is ch and the pointer returned is that of the row;
\* and when a row of the element had the checksum ch before the call, the
\* call changed no checksum and no byte of bh.
C27_GetFront ==
  elem.row >= 0 =>
    /\ elem.got.last % 16 \in 0..6
    /\ elem.got.chk[(elem.got.last % 16) + 1] = elem.ch
    /\ elem.row = elem.got.last % 16
    /\ elem.ch \in Held(elem.pre) =>
         /\ elem.got.chk = elem.pre.chk
         /\ elem.got.bh = elem.pre.bh

\* get(ch) found ch in the scan, in a row that was neither of the two in
\* last, and put the row in front of the one that was first
C27_Witness ==
  /\ elem.row >= 0
  /\ elem.ch \in Held(elem.pre)
  /\ elem.row # elem.pre.last % 16 /\ elem.row # elem.pre.last \div 16
  /\ elem.pre.bh[elem.row + 1][1] > 0
  /\ elem.got.last = (elem.pre.last % 16) * 16 + elem.row


---------------------------------------------------------------------------
(* The order-hash chain cxt[0..15] of contextModel2 on two byte histories. *)
(* The first is in ctx and stat, the second in run.  Each history starts   *)
(* with up to MaxPrefix bytes of its own; from then on both are given the  *)
(* same bytes, up to MaxShared of them.  A step is the update() that       *)
(* completes a byte, as far as c4, buf and cxt go.                         *)

ChainBytes == {0, 255}
FirstOwn == {0}      \* the bytes of its own of the first history
SecondOwn == {255}   \* and of the second
MaxPrefix == 1      \* bytes of its own at the start of a history
MaxShared == 15     \* bytes given to both histories

InitChain ==
  /\ probe = ProbeIdle /\ hist = HistInit
  /\ y = 0 /\ m = MixerInit /\ caller = CallerIdle
  /\ bh = BHInit /\ bhuse = BHUserInit
  /\ PredictorIdle
  /\ sm1 = Sm1Idle /\ apm1 = Apm1Idle /\ elem = ElemIdle
  /\ run = [c4 |-> CtxInit.c4, buf |-> <<>>, cxt |-> StatInit.cxt, shared |-> 0]

\* buf[pos++] = c0; c4 = (c4 << 8) + c0 - 256 with c0 = 256 + b, and then
\* the loop over cxt
ChainByte(g, b) ==
  With(PushByte(g.c4, 256 + b), LAMBDA c4 :
    [c4 |-> c4, buf |-> Append(g.buf, b),
     cxt |-> NextCxt([cxt |-> g.cxt, c4 |-> c4])])

\* the first history is given a byte of its own
CallChainFirst ==
  /\ run.shared = 0 /\ Len(ctx.buf) < MaxPrefix
  /\ \E b \in FirstOwn :
       \E g \in {ChainByte([c4 |-> ctx.c4, buf |-> ctx.buf, cxt |-> stat.cxt], b)} :
         /\ ctx' = [ctx EXCEPT !.c4 = g.c4, !.buf = g.buf, !.pos = @ + 1]
         /\ stat' = [stat EXCEPT !.cxt = g.cxt]
  /\ UNCHANGED <<probe, hist, y, m, caller, bh, bhuse, pred, coder, sm1, apm1, elem, run>>

\* the second history is given a byte of its own
CallChainSecond ==
  /\ run.shared = 0 /\ Len(run.buf) < MaxPrefix
  /\ \E b \in SecondOwn :
       \E g \in {ChainByte(run, b)} :
         run' = [c4 |-> g.c4, buf |-> g.buf, cxt |-> g.cxt, shared |-> 0]
  /\ UNCHANGED <<probe, hist, y, m, caller, bh, bhuse, ctx, stat, pred, coder, sm1, apm1, elem>>

\* both histories are given the same byte
CallChainBoth ==
  /\ run.shared < MaxShared
  /\ \E b \in ChainBytes :
       \E g \in {ChainByte([c4 |-> ctx.c4, buf |-> ctx.buf, cxt |-> stat.cxt], b)} :
       \E h \in {ChainByte(run, b)} :
         /\ ctx' = [ctx EXCEPT !.c4 = g.c4, !.buf = g.buf, !.pos = @ + 1]
         /\ stat' = [stat EXCEPT !.cxt = g.cxt]
         /\ run' = [c4 |-> h.c4, buf |-> h.buf, cxt |-> h.cxt,
                    shared |-> run.shared + 1]
  /\ UNCHANGED <<probe, hist, y, m, caller, bh, bhuse, pred, coder, sm1, apm1, elem>>

NextChain == CallChainFirst \/ CallChainSecond \/ CallChainBoth

SpecChain == InitChain /\ [][NextChain]_vars

\* both histories have i bytes or more and their last i bytes are the same
SameTail(i) ==
  /\ i <= Len(ctx.buf) /\ i <= Len(run.buf)
  /\ \A k \in 1..i : ctx.buf[Len(ctx.buf) - k + 1] = run.buf[Len(run.buf) - k + 1]

\* C28: cxt[0] is always 0, and for i in 1..15 two byte histories of i
\* bytes or more whose last i bytes are the same have the same cxt[i],
\* whatever the bytes before.
C28_ChainOfLastBytes ==
  /\ stat.cxt[1] = <<0, 0>> /\ run.cxt[1] = <<0, 0>>
  /\ \A i \in 1..15 : SameTail(i) => stat.cxt[i + 1] = run.cxt[i + 1]

\* two histories of 16 bytes that differ in the first byte and in nothing
\* else: cxt[15] is the same in both, and cxt[14] is not cxt[15]
C28_Witness ==
  /\ Len(ctx.buf) = 16 /\ Len(run.buf) = 16
  /\ ctx.buf[1] # run.buf[1]
  /\ SameTail(15)
  /\ stat.cxt[16] = run.cxt[16]
  /\ stat.cxt[16] # stat.cxt[15]


---------------------------------------------------------------------------
(* The entries of the tables of StateMap and APM as 16 bit values: one     *)
(* call of p() on an entry of value run.v, for the values of TableValues.  *)

TableEdge == 300     \* the values within TableEdge of 0 and of 65535

TableValues ==
  (0..TableEdge) \cup ((65535 - TableEdge)..65535) \cup {257 * k : k \in 0..255}

InitTables ==
  /\ probe = ProbeIdle /\ hist = HistInit /\ m = MixerInit
  /\ caller = CallerIdle /\ bh = <<>> /\ bhuse = BHUserInit
  /\ PredictorIdle /\ elem = ElemIdle
  /\ y \in {0, 1}
  /\ \E v \in TableValues :
       /\ run = [v |-> v]
       /\ sm1 = [sm |-> [cxt |-> 0, t |-> (0 :> v)], cx |-> 0, bit |-> y,
                 first |-> Shr(v, 4), ps |-> <<>>]
       /\ apm1 = [a |-> [ApmInit EXCEPT !.t = (0 :> v) @@ (1 :> v)],
                  pr |-> 2048, cx |-> 0, rate |-> 7, bit |-> y, ps |-> <<>>]

\* the first p() of the StateMap
CallSmFirst == sm1.ps = <<>> /\ CallSmP

\* the first p() of the APM
CallApmFirst == apm1.ps = <<>> /\ CallApmP

NextTables == CallSmFirst \/ CallApmFirst

SpecTables == InitTables /\ [][NextTables]_vars

\* the two updates give a 16 bit value for every 16 bit value and bit
TablesInRange ==
  \A t \in 0..65535 : \A bit \in {0, 1} :
    /\ SmStep(t, bit) \in 0..65535
    /\ ApmStep(t, 7, bit) \in 0..65535

\* C29: for every value t in 0..65535 of an entry and y in {0, 1}, the
\* StateMap update t + (((y << 16) - t + 128) >> 8) and the APM update
\* t + ((g - t) >> 7) with g = (y << 16) + (y << 7) - 2y are in 0..65535,
\* and the entry stored by p() is that value.
C29_TablesDoNotWrap ==
  /\ TablesInRange
  /\ sm1.ps # <<>> =>
       /\ SmStep(run.v, y) \in 0..65535
       /\ SmAt(sm1.sm.t, 0) = SmStep(run.v, y)
  /\ apm1.ps # <<>> =>
       /\ ApmStep(run.v, 7, y) \in 0..65535
       /\ ApmAt(apm1.a.t, 0) = ApmStep(run.v, 7, y)
       /\ ApmAt(apm1.a.t, 1) = ApmStep(run.v, 7, y)

\* entries of 65534 trained with y = 1: the APM's reach 65535, the
\* StateMap's stays
C29_Witness ==
  /\ sm1.ps # <<>> /\ apm1.ps # <<>>
  /\ run.v = 65534 /\ y = 1
  /\ SmAt(sm1.sm.t, 0) = 65534
  /\ ApmAt(apm1.a.t, 0) = 65535


---------------------------------------------------------------------------
(* A RunContextMap used through its constructor and set() only.  The keys  *)
(* are RcmKey(0), the constructor's, and RcmKey(1..RcmKeyCount), which     *)
(* share another bucket; they are taken in order, but for at most          *)
(* MaxRevisits calls that go back to a key taken before or pass the second *)
(* byte of RcmBytes.  run.r is the map, run.fresh the last key taken,      *)
(* run.missed the number of lookups that found the bucket full.            *)

RcmKeyCount == 10    \* keys that share the bucket
MaxSets == 12        \* calls of set() per run
MaxRevisits == 2     \* calls that depart from the plain run
\* the values of buf(1): the first is that of the plain run
RcmBytes == <<65, 66>>

RcmKey(h) == IF h = 0 THEN <<0, 0>> ELSE <<15 + h, 16>>

InitRcm ==
  /\ probe = ProbeIdle /\ hist = HistInit
  /\ y = 0 /\ m = MixerInit /\ caller = CallerIdle
  /\ bh = BHInit /\ bhuse = BHUserInit
  /\ PredictorIdle /\ sm1 = Sm1Idle /\ apm1 = Apm1Idle /\ elem = ElemIdle
  /\ run = [r |-> RcmInit, n |-> 0, fresh |-> 0, revisits |-> 0, missed |-> 0]

\* slot j of the bucket at base i is occupied: its count byte is not 0, or
\* cp is at it
RcmOccupied(i, j) ==
  Bucket(run.r.t, i)[j].v[1] # 0 \/ (i = run.r.cp /\ j = 1)

\* rcm.set(cx) with buf(1) = b1
CallRcmSet ==
  /\ run.n < MaxSets
  /\ \E h \in 0..RcmKeyCount : \E b1 \in {RcmBytes[1], RcmBytes[2]} :
       LET d == (IF h <= run.fresh THEN 1 ELSE 0)
                + (IF b1 # RcmBytes[1] THEN 1 ELSE 0)
           r2 == RcmSet(run.r, RcmKey(h), b1)
           \* the lookup finds no slot: set() has written the count of the
           \* slot cp is at, so every slot has a count and none the checksum
           full == \A j \in 1..BH_M :
                     /\ RcmOccupied(BHIndex(RcmKey(h)), j)
                     /\ Bucket(run.r.t, BHIndex(RcmKey(h)))[j].chk
                          # BHChk(RcmKey(h))
       IN  /\ h <= run.fresh + 1
           /\ run.revisits + d <= MaxRevisits
           /\ run' = [r |-> r2, n |-> run.n + 1,
                      fresh |-> IF h > run.fresh THEN h ELSE run.fresh,
                      revisits |-> run.revisits + d,
                      missed |-> run.missed + (IF full THEN 1 ELSE 0)]
  /\ UNCHANGED <<probe, hist, y, m, caller, bh, bhuse, ctx, stat, pred, coder,
                 sm1, apm1, elem>>

NextRcm == CallRcmSet

SpecRcm == InitRcm /\ [][NextRcm]_vars

\* C30: in a RunContextMap used through its constructor and set() only,
\* after any sequence of set(cx), the occupied slots of every bucket (count
\* byte not 0, and the slot cp is at) are the first slots of the bucket and
\* no two of them have the same checksum.
C30_OccupiedPrefixDistinct ==
  \A i \in DOMAIN run.r.t :
    /\ \A j \in 2..BH_M : RcmOccupied(i, j) => RcmOccupied(i, j - 1)
    /\ \A j, k \in 1..BH_M :
         (j # k /\ RcmOccupied(i, j) /\ RcmOccupied(i, k))
           => Bucket(run.r.t, i)[j].chk # Bucket(run.r.t, i)[k].chk

\* a bucket all of whose slots are occupied, after two lookups found it
\* full and one went back to a key that was still there, with cp at its
\* first slot, whose count is still 0
C30_Witness ==
  /\ run.missed >= 2 /\ run.revisits >= 1
  /\ run.r.cp = BHIndex(RcmKey(1))
  /\ \A j \in 1..BH_M : RcmOccupied(run.r.cp, j)
  /\ Bucket(run.r.t, run.r.cp)[1].v[1] = 0
  /\ \E j \in 2..BH_M : Bucket(run.r.t, run.r.cp)[j].v[1] >= 2

====
